---- MODULE Spec2Model ----
(***************************************************************************)
(* Detection rule engine of deploy_pilot: services/detector.py             *)
(* (ProjectDetector), services/rules.py (DetectionRules) and               *)
(* models/response_models.py (DetectionResult, MultiDetectionResult).      *)
(*                                                                         *)
(* The scanned project is a tree of directories and text files; a path is  *)
(* a string relative to the scan root, components separated by "/".        *)
(* Python floats are IEEE-754 doubles: a double is kept exactly, as a pair *)
(* <<hi, lo>> standing for (hi * 2^29 + lo) * 2^-57, and every addition    *)
(* and multiplication rounds to nearest-even as the hardware does.         *)
(***************************************************************************)
EXTENDS Integers, Sequences, FiniteSets, TLC

(***************************************************************************)
(* Strings (Python str operations used by the detector)                    *)
(***************************************************************************)

Min(a, b) == IF a <= b THEN a ELSE b

\* the elements of a sequence
Range(s) == {s[i] : i \in DOMAIN s}

\* s.startswith(p)
StartsWith(s, p) == Len(p) <= Len(s) /\ SubSeq(s, 1, Len(p)) = p

\* s.endswith(p)
EndsWith(s, p) == Len(p) <= Len(s) /\ SubSeq(s, Len(s) - Len(p) + 1, Len(s)) = p

\* p in s
Contains(s, p) ==
    \E i \in 1..(Len(s) - Len(p) + 1) : SubSeq(s, i, i + Len(p) - 1) = p

\* s[1:]
DropFirst(s) == SubSeq(s, 2, Len(s))

\* position of the last "/" of s, 0 when there is none
RECURSIVE LastSep(_, _)
LastSep(s, i) ==
    IF i = 0 THEN 0
    ELSE IF SubSeq(s, i, i) = "/" THEN i
    ELSE LastSep(s, i - 1)

\* os.path.basename(s)
Basename(s) == SubSeq(s, LastSep(s, Len(s)) + 1, Len(s))

\* os.path.dirname(s); "" is the scan root
Dirname(s) == SubSeq(s, 1, LastSep(s, Len(s)) - 1)

\* s.count(os.sep)
RECURSIVE CountSep(_, _)
CountSep(s, i) ==
    IF i = 0 THEN 0
    ELSE (IF SubSeq(s, i, i) = "/" THEN 1 ELSE 0) + CountSep(s, i - 1)

\* the directories a path lies in, nearest first, the scan root left out
RECURSIVE Ancestors(_)
Ancestors(s) ==
    IF Dirname(s) = "" THEN {}
    ELSE {Dirname(s)} \cup Ancestors(Dirname(s))

UpperCase == <<"A", "B", "C", "D", "E", "F", "G", "H", "I", "J", "K", "L", "M",
               "N", "O", "P", "Q", "R", "S", "T", "U", "V", "W", "X", "Y", "Z">>

LowerCase == <<"a", "b", "c", "d", "e", "f", "g", "h", "i", "j", "k", "l", "m",
               "n", "o", "p", "q", "r", "s", "t", "u", "v", "w", "x", "y", "z">>

UpperSet == {UpperCase[k] : k \in 1..26}

LowerChar(c) ==
    IF \E k \in 1..26 : UpperCase[k] = c
    THEN LowerCase[CHOOSE k \in 1..26 : UpperCase[k] = c]
    ELSE c

\* s.lower()
RECURSIVE Lower(_)
Lower(s) ==
    IF \A i \in 1..Len(s) : SubSeq(s, i, i) \notin UpperSet THEN s
    ELSE IF Len(s) = 1 THEN LowerChar(s)
    ELSE Lower(SubSeq(s, 1, Len(s) \div 2))
         \o Lower(SubSeq(s, Len(s) \div 2 + 1, Len(s)))

\* s * n
RECURSIVE Repeat(_, _)
Repeat(s, n) ==
    IF n = 0 THEN ""
    ELSE IF n % 2 = 1 THEN s \o Repeat(s, n - 1)
    ELSE Repeat(s \o s, n \div 2)

(***************************************************************************)
(* IEEE-754 doubles in [0, 2), exact to 2^-57                              *)
(***************************************************************************)

LIMB == 2^29

\* a < b, a <= b, min(a, b), max(a, b) on doubles
FLess(a, b) == a[1] < b[1] \/ (a[1] = b[1] /\ a[2] < b[2])

FLeq(a, b) == a = b \/ FLess(a, b)

FMin(a, b) == IF FLess(b, a) THEN b ELSE a

FMax(a, b) == IF FLess(a, b) THEN b ELSE a

\* the spacing of doubles in the binade of a non-negative value, in 2^-57
Ulp(hi) ==
    IF hi >= 2^28 THEN 32
    ELSE IF hi >= 2^27 THEN 16
    ELSE IF hi >= 2^26 THEN 8
    ELSE IF hi >= 2^25 THEN 4
    ELSE IF hi >= 2^24 THEN 2
    ELSE 1

\* carry the low limb into the high one
Norm(hi, lo) == <<hi + (lo \div LIMB), lo % LIMB>>

\* round an exact value to the nearest double, ties to even
FRound(x) ==
    LET u == Ulp(x[1])
        r == x[2] % u
        down == x[2] - r
        up == r * 2 > u \/ (r * 2 = u /\ (down \div u) % 2 = 1)
    IN  IF r = 0 THEN x
        ELSE IF up THEN Norm(x[1], down + u)
        ELSE <<x[1], down>>

\* a + b
FAdd(a, b) == FRound(Norm(a[1] + b[1], a[2] + b[2]))

\* a / 2 (exact for the weights)
FHalf(a) == <<a[1] \div 2, (a[2] + (a[1] % 2) * LIMB) \div 2>>

\* the exact product n * a
RECURSIVE ExactTimes(_, _)
ExactTimes(n, a) ==
    IF n = 0 THEN <<0, 0>>
    ELSE LET p == ExactTimes(n - 1, a)
         IN  Norm(p[1] + a[1], p[2] + a[2])

\* n * a, n an int
FTimes(n, a) == FRound(ExactTimes(n, a))

\* the double literals of the source
F0_0 == <<0, 0>>
F0_35 == <<93952409, 322122544>>
F0_10 == <<26843545, 322122548>>
F0_15 == <<40265318, 214748364>>
F0_20 == <<53687091, 107374184>>
F0_45 == <<120795955, 107374184>>
F0_65 == <<174483046, 214748368>>
F0_80 == <<214748364, 429496736>>
F1_0 == <<268435456, 0>>

(***************************************************************************)
(* services/rules.py: the rule catalog                                     *)
(***************************************************************************)

\* the keys of PLATFORM_FILES, in the order the dict declares them
PLATFORMS == <<"java", "nodejs", "python", "dotnet", "go", "rust", "php", "ruby">>

PLATFORM_FILES ==
    (
    "java" :> [
        primary |-> <<"pom.xml", "build.gradle", "build.gradle.kts">>,
        secondary |-> <<"src/main/java", "gradlew", "mvnw", "gradlew.bat", "mvnw.cmd">>,
        structure_indicators |-> <<"src/main/resources", "src/test/java", "src/main/webapp">>,
        config_files |-> <<"application.properties", "application.yml", "application.yaml">>,
        framework_indicators |-> <<
            [name |-> "Spring Boot", indicators |-> <<"spring-boot-starter", "SpringBootApplication",
                  "@SpringBootApplication", "application.properties", "application.yml">>],
            [name |-> "Spring", indicators |-> <<"springframework", "@Component", "@Service", "@Controller">>],
            [name |-> "Jakarta EE", indicators |-> <<"jakarta.servlet", "persistence.xml", "beans.xml">>],
            [name |-> "Micronaut", indicators |-> <<"micronaut", "@Controller">>],
            [name |-> "Quarkus", indicators |-> <<"quarkus", "application.properties">>],
            [name |-> "Maven", indicators |-> <<"pom.xml">>],
            [name |-> "Gradle", indicators |-> <<"build.gradle", "build.gradle.kts", "settings.gradle">>]
        >>,
        content_patterns |-> <<
            [file_pattern |-> "pom.xml", patterns |-> <<"<groupId>org.springframework.boot</groupId>",
                  "<artifactId>spring-boot", "<groupId>jakarta.enterprise</groupId>",
                  "<groupId>io.micronaut</groupId>">>],
            [file_pattern |-> "build.gradle", patterns |-> <<"spring-boot-starter", "org.springframework.boot", "io.micronaut">>],
            [file_pattern |-> "*.java", patterns |-> <<"@SpringBootApplication", "@RestController", "@Service", "@Component">>]
        >>
    ]
    @@
    "nodejs" :> [
        primary |-> <<"package.json">>,
        secondary |-> <<"package-lock.json", "yarn.lock", "pnpm-lock.yaml", "node_modules",
                       ".npmrc", ".yarnrc", "pnpm-workspace.yaml">>,
        structure_indicators |-> <<"src", "public", "dist", "build">>,
        config_files |-> <<"tsconfig.json", "webpack.config.js", "vite.config.js",
                          "next.config.js", "vue.config.js", "nuxt.config.js", ".babelrc",
                          "jest.config.js">>,
        framework_indicators |-> <<
            [name |-> "React", indicators |-> <<"react", "react-dom", "create-react-app", "jsx">>],
            [name |-> "Next.js", indicators |-> <<"next", "next.config", "pages", "app">>],
            [name |-> "Vue.js", indicators |-> <<"vue", "@vue", "vuex", "vue-router">>],
            [name |-> "Nuxt.js", indicators |-> <<"nuxt", "nuxt.config">>],
            [name |-> "Angular", indicators |-> <<"@angular/core", "angular.json">>],
            [name |-> "Express", indicators |-> <<"express", "app.use", "app.listen">>],
            [name |-> "NestJS", indicators |-> <<"@nestjs/core", "@nestjs/common">>],
            [name |-> "Fastify", indicators |-> <<"fastify">>],
            [name |-> "Koa", indicators |-> <<"koa">>],
            [name |-> "Svelte", indicators |-> <<"svelte", "svelte.config">>],
            [name |-> "Gatsby", indicators |-> <<"gatsby", "gatsby-config">>],
            [name |-> "Electron", indicators |-> <<"electron">>]
        >>,
        content_patterns |-> <<
            [file_pattern |-> "package.json", patterns |-> <<"\"react\":", "\"next\":", "\"vue\":", "\"express\":",
                  "\"@nestjs/core\":", "\"angular\":", "\"svelte\":", "\"gatsby\":",
                  "\"electron\":">>],
            [file_pattern |-> "*.jsx", patterns |-> <<"import React", "from 'react'", "export default">>],
            [file_pattern |-> "*.tsx", patterns |-> <<"import React", "from 'react'", "interface", "type">>]
        >>
    ]
    @@
    "python" :> [
        primary |-> <<"requirements.txt", "pyproject.toml", "setup.py", "Pipfile",
                     "poetry.lock">>,
        secondary |-> <<"manage.py", "app.py", "main.py", "__init__.py", "setup.cfg",
                       "Pipfile.lock", "tox.ini", "pytest.ini">>,
        structure_indicators |-> <<"src", "tests", "docs">>,
        config_files |-> <<"setup.cfg", "pyproject.toml", "tox.ini", ".flake8", "mypy.ini">>,
        framework_indicators |-> <<
            [name |-> "Django", indicators |-> <<"django", "manage.py", "settings.py", "urls.py", "wsgi.py">>],
            [name |-> "Flask", indicators |-> <<"flask", "Flask", "app.py", "from flask import">>],
            [name |-> "FastAPI", indicators |-> <<"fastapi", "FastAPI", "uvicorn", "from fastapi import">>],
            [name |-> "Tornado", indicators |-> <<"tornado">>],
            [name |-> "Pyramid", indicators |-> <<"pyramid">>],
            [name |-> "Bottle", indicators |-> <<"bottle">>],
            [name |-> "Streamlit", indicators |-> <<"streamlit", "st.">>],
            [name |-> "Celery", indicators |-> <<"celery", "from celery import">>],
            [name |-> "Scrapy", indicators |-> <<"scrapy", "scrapy.cfg">>],
            [name |-> "Jupyter", indicators |-> <<"jupyter", ".ipynb">>]
        >>,
        content_patterns |-> <<
            [file_pattern |-> "requirements.txt", patterns |-> <<"django", "flask", "fastapi", "tornado", "pyramid">>],
            [file_pattern |-> "pyproject.toml", patterns |-> <<"django", "flask", "fastapi", "poetry">>],
            [file_pattern |-> "*.py", patterns |-> <<"from django", "from flask import", "from fastapi import",
                  "FastAPI()", "Flask(__name__)">>]
        >>
    ]
    @@
    "dotnet" :> [
        primary |-> <<"*.csproj", "*.sln", "*.fsproj", "*.vbproj">>,
        secondary |-> <<"Program.cs", "Startup.cs", "appsettings.json",
                       "appsettings.Development.json", "web.config", "nuget.config">>,
        structure_indicators |-> <<"Controllers", "Models", "Views", "Properties", "wwwroot">>,
        config_files |-> <<"appsettings.json", "launchSettings.json", "web.config">>,
        framework_indicators |-> <<
            [name |-> "ASP.NET Core", indicators |-> <<"Microsoft.AspNetCore", "Startup.cs", "Program.cs">>],
            [name |-> "ASP.NET MVC", indicators |-> <<"System.Web.Mvc", "Controllers", "Views">>],
            [name |-> "Blazor", indicators |-> <<"Microsoft.AspNetCore.Components", "Blazor", ".razor">>],
            [name |-> "WPF", indicators |-> <<"System.Windows", "App.xaml">>],
            [name |-> "WinForms", indicators |-> <<"System.Windows.Forms">>],
            [name |-> "Console App", indicators |-> <<"Program.cs", "static void Main">>],
            [name |-> "Web API", indicators |-> <<"ApiController", "Microsoft.AspNetCore.Mvc">>],
            [name |-> "gRPC", indicators |-> <<"Grpc.AspNetCore", ".proto">>]
        >>,
        content_patterns |-> <<
            [file_pattern |-> "*.csproj", patterns |-> <<"Microsoft.NET.Sdk.Web", "Microsoft.AspNetCore",
                  "Microsoft.EntityFrameworkCore">>],
            [file_pattern |-> "Program.cs", patterns |-> <<"WebApplication.CreateBuilder", "app.Run()", "static void Main">>]
        >>
    ]
    @@
    "go" :> [
        primary |-> <<"go.mod">>,
        secondary |-> <<"go.sum", "main.go", "Makefile">>,
        structure_indicators |-> <<"cmd", "pkg", "internal", "api">>,
        config_files |-> <<"go.work", ".golangci.yml">>,
        framework_indicators |-> <<
            [name |-> "Gin", indicators |-> <<"gin-gonic/gin", "gin.Default()", "gin.Engine">>],
            [name |-> "Echo", indicators |-> <<"labstack/echo", "echo.New()">>],
            [name |-> "Fiber", indicators |-> <<"gofiber/fiber">>],
            [name |-> "Chi", indicators |-> <<"go-chi/chi">>],
            [name |-> "Gorilla Mux", indicators |-> <<"gorilla/mux">>],
            [name |-> "Beego", indicators |-> <<"beego">>],
            [name |-> "Buffalo", indicators |-> <<"gobuffalo/buffalo">>],
            [name |-> "Standard", indicators |-> <<"net/http", "http.ListenAndServe">>]
        >>,
        content_patterns |-> <<
            [file_pattern |-> "go.mod", patterns |-> <<"gin-gonic", "labstack/echo", "gofiber", "go-chi", "gorilla/mux">>],
            [file_pattern |-> "*.go", patterns |-> <<"package main", "func main()", "import (">>]
        >>
    ]
    @@
    "rust" :> [
        primary |-> <<"Cargo.toml">>,
        secondary |-> <<"Cargo.lock", "main.rs", "lib.rs">>,
        structure_indicators |-> <<"src", "tests", "benches">>,
        config_files |-> <<"rust-toolchain", ".cargo/config.toml">>,
        framework_indicators |-> <<
            [name |-> "Actix", indicators |-> <<"actix-web", "actix_web">>],
            [name |-> "Rocket", indicators |-> <<"rocket">>],
            [name |-> "Axum", indicators |-> <<"axum">>],
            [name |-> "Warp", indicators |-> <<"warp">>],
            [name |-> "Tokio", indicators |-> <<"tokio">>]
        >>,
        content_patterns |-> <<
            [file_pattern |-> "Cargo.toml", patterns |-> <<"actix-web", "rocket", "axum", "warp", "tokio">>],
            [file_pattern |-> "*.rs", patterns |-> <<"fn main()", "use actix_web", "use rocket">>]
        >>
    ]
    @@
    "php" :> [
        primary |-> <<"composer.json">>,
        secondary |-> <<"composer.lock", "index.php", "artisan", "wp-config.php">>,
        structure_indicators |-> <<"vendor", "public", "app", "src">>,
        config_files |-> <<".env", "config.php">>,
        framework_indicators |-> <<
            [name |-> "Laravel", indicators |-> <<"laravel/framework", "artisan", "app/Http">>],
            [name |-> "Symfony", indicators |-> <<"symfony/symfony", "symfony/framework-bundle">>],
            [name |-> "WordPress", indicators |-> <<"wp-config.php", "wp-content", "wp-includes">>],
            [name |-> "CodeIgniter", indicators |-> <<"codeigniter", "system/core">>],
            [name |-> "CakePHP", indicators |-> <<"cakephp/cakephp">>],
            [name |-> "Yii", indicators |-> <<"yiisoft/yii2">>]
        >>,
        content_patterns |-> <<
            [file_pattern |-> "composer.json", patterns |-> <<"laravel/framework", "symfony/symfony", "cakephp", "yiisoft">>],
            [file_pattern |-> "*.php", patterns |-> <<"<?php", "namespace", "use Illuminate">>]
        >>
    ]
    @@
    "ruby" :> [
        primary |-> <<"Gemfile">>,
        secondary |-> <<"Gemfile.lock", "Rakefile", "config.ru">>,
        structure_indicators |-> <<"app", "config", "db", "lib">>,
        config_files |-> <<"config/application.rb", "config/environment.rb">>,
        framework_indicators |-> <<
            [name |-> "Ruby on Rails", indicators |-> <<"rails", "config/application.rb", "app/controllers">>],
            [name |-> "Sinatra", indicators |-> <<"sinatra">>],
            [name |-> "Hanami", indicators |-> <<"hanami">>],
            [name |-> "Jekyll", indicators |-> <<"jekyll", "_config.yml">>]
        >>,
        content_patterns |-> <<
            [file_pattern |-> "Gemfile", patterns |-> <<"gem 'rails'", "gem 'sinatra'", "gem 'jekyll'">>],
            [file_pattern |-> "*.rb", patterns |-> <<"class ApplicationController", "Rails.application">>]
        >>
    ]
    )

\* the doubles of SCORE_WEIGHTS
SCORE_WEIGHTS ==
    [primary_file |-> F0_35,
     secondary_file |-> F0_10,
     structure_indicator |-> F0_15,
     config_file |-> F0_10,
     framework_match |-> F0_20,
     content_match |-> F0_10]

BUILD_COMMANDS ==
    (
    "java" :> <<[tool |-> "Maven", command |-> "mvn clean package"],
                [tool |-> "Gradle", command |-> "gradle build"]>>
    @@
    "nodejs" :> <<[tool |-> "npm", command |-> "npm run build"],
                  [tool |-> "yarn", command |-> "yarn build"],
                  [tool |-> "pnpm", command |-> "pnpm build"]>>
    @@
    "python" :> <<[tool |-> "pip", command |-> "pip install -r requirements.txt"]>>
    @@
    "dotnet" :> <<[tool |-> "dotnet", command |-> "dotnet build"]>>
    @@
    "go" :> <<[tool |-> "go", command |-> "go build"]>>
    @@
    "rust" :> <<[tool |-> "cargo", command |-> "cargo build --release"]>>
    @@
    "php" :> <<[tool |-> "composer", command |-> "composer install"]>>
    @@
    "ruby" :> <<[tool |-> "bundle", command |-> "bundle install"]>>
    )

IGNORED_DIRS ==
    {"node_modules", ".git", "venv", "__pycache__",
     "target", "build", "dist", ".vscode", ".idea",
     "bin", "obj", "vendor"}

\* Python's None
None == "<None>"

(***************************************************************************)
(* The scanned tree.  A project is [files, dirs, denied, dangling]: files   *)
(* maps the path of every file to its text, dirs is the set of directories *)
(* below the root, denied the files and directories of mode 000 (open and  *)
(* listdir raise PermissionError, and so does stat of what lies below such *)
(* a directory), dangling the symbolic links to nothing.                   *)
(***************************************************************************)

\* a directory above p cannot be searched
Shut(project, p) == Ancestors(p) \cap project.denied # {}

\* os.path.exists(os.path.join(project_path, p))
PathExists(project, p) ==
    /\ p \in DOMAIN project.files \/ p \in project.dirs
    /\ ~Shut(project, p)

\* os.path.isfile(os.path.join(project_path, p))
IsFile(project, p) == p \in DOMAIN project.files /\ ~Shut(project, p)

\* open(os.path.join(project_path, p)) raises
OpenRaises(project, p) == ~IsFile(project, p) \/ p \in project.denied

\* stands for a byte sequence that is not UTF-8
UNDECODABLE == "%"

\* bytes.decode(errors='ignore')
RECURSIVE DropUndecodable(_)
DropUndecodable(text) ==
    IF Len(text) = 0 THEN ""
    ELSE IF Len(text) = 1 THEN (IF text = UNDECODABLE THEN "" ELSE text)
    ELSE DropUndecodable(SubSeq(text, 1, Len(text) \div 2))
         \o DropUndecodable(SubSeq(text, Len(text) \div 2 + 1, Len(text)))

DecodeIgnore(text) ==
    IF Contains(text, UNDECODABLE) THEN DropUndecodable(text) ELSE text

\* mutant: the depth is counted from 1, as it is below a directory
Depth_FromOne(d) == IF d = "" THEN 1 ELSE CountSep("/" \o d, Len(d) + 1) + 1

\* depth = root[len(path):].count(os.sep), root = path + "/" + d below the root
Depth(d) == IF d = "" THEN 0 ELSE CountSep("/" \o d, Len(d) + 1)

\* the entries os.walk yields for one directory d
FilesIn(project, d) ==
    {f \in DOMAIN project.files \cup project.dangling : Dirname(f) = d}

SubdirsOf(project, d) == {s \in project.dirs : Dirname(s) = d}

\* os.walk from d, as _scan_directory prunes it
\* mutant: no directory is pruned
Pruned_Nothing(subdirs) == subdirs

\* dirs[:] = [d for d in dirs if d not in self.rules.IGNORED_DIRS]
Pruned(subdirs) == {t \in subdirs : Basename(t) \notin IGNORED_DIRS}

RECURSIVE Walk(_, _, _)
Walk(project, d, max_depth) ==
    IF Depth(d) >= max_depth \/ d \in project.denied THEN {}
    ELSE FilesIn(project, d) \cup
         UNION {Walk(project, s, max_depth) : s \in Pruned(SubdirsOf(project, d))}

_scan_directory(project, max_depth) == Walk(project, "", max_depth)

\* f.read(n) of a text
ReadAtMost(text, n) == SubSeq(text, 1, Min(n, Len(text)))

\* the default of max_bytes in _read_file_content
MAX_BYTES == 50000

\* mutant: the whole file is read
_read_file_content_Whole(project, f, max_bytes) ==
    IF OpenRaises(project, f) THEN "" ELSE DecodeIgnore(project.files[f])

\* f.read(max_bytes) of the file opened with errors='ignore'; "" when the
\* try block raises
_read_file_content(project, f, max_bytes) ==
    IF OpenRaises(project, f) THEN ""
    ELSE ReadAtMost(DecodeIgnore(project.files[f]), max_bytes)

(***************************************************************************)
(* json.load of package.json.  The documents that occur are the ones of    *)
(* the file pool; a parsed document is [valid, dependencies,               *)
(* devDependencies], valid = FALSE when the try block raises               *)
(***************************************************************************)

PKG_PLAIN == "{\"name\": \"test\"}"

PKG_REACT == "{\"dependencies\": {\"react\": \"^18.0.0\"}}"

PKG_DEV_EXPRESS == "{\"devDependencies\": {\"express\": \"4\"}}"

PKG_BROKEN == "{\"dependencies\": "

\* documents json.load accepts and package_data.get or deps.update rejects
PKG_ARRAY == "[\"react\"]"

PKG_DEPS_LIST == "{\"dependencies\": [\"react\"]}"

\* a document with a byte open(..., 'r') cannot decode
PKG_UNDECODABLE == "{\"dependencies\": {\"react\": \"%18\"}}"

JsonLoad(text) ==
    CASE text = PKG_PLAIN ->
            [valid |-> TRUE, dependencies |-> {}, devDependencies |-> {}]
      [] text = PKG_REACT ->
            [valid |-> TRUE, dependencies |-> {"react"}, devDependencies |-> {}]
      [] text = PKG_DEV_EXPRESS ->
            [valid |-> TRUE, dependencies |-> {}, devDependencies |-> {"express"}]
      [] OTHER ->
            [valid |-> FALSE, dependencies |-> {}, devDependencies |-> {}]

(***************************************************************************)
(* services/detector.py: the signal evaluator                              *)
(***************************************************************************)

\* mutant: a plain pattern is compared with the whole relative path
_find_pattern_matches_WholePath(pattern, files) ==
    IF StartsWith(pattern, "*")
    THEN {f \in files : EndsWith(f, DropFirst(pattern))}
    ELSE IF Contains(pattern, "/")
    THEN {f \in files : Contains(f, pattern)}
    ELSE {f \in files : f = pattern}

_find_pattern_matches(pattern, files) ==
    IF StartsWith(pattern, "*")
    THEN {f \in files : EndsWith(f, DropFirst(pattern))}
    ELSE IF Contains(pattern, "/")
    THEN {f \in files : Contains(f, pattern)}
    ELSE {f \in files : Basename(f) = pattern}

\* the patterns of a category that matched at least one file
MatchedPatterns(patterns, files) ==
    {k \in 1..Len(patterns) : _find_pattern_matches(patterns[k], files) # {}}

\* the files matched by the patterns of a category
MatchedFiles(patterns, files) ==
    UNION {_find_pattern_matches(patterns[k], files) : k \in 1..Len(patterns)}

_detect_nodejs_build_tool(files) ==
    IF \E f \in files : Contains(f, "pnpm-lock.yaml") THEN "pnpm"
    ELSE IF \E f \in files : Contains(f, "yarn.lock") THEN "yarn"
    ELSE IF \E f \in files : Contains(f, "package-lock.json") THEN "npm"
    ELSE "npm"

\* build_tool after the k-th primary pattern was looked at
RECURSIVE BuildToolAfter(_, _, _)
BuildToolAfter(platform, files, k) ==
    IF k = 0 THEN None
    ELSE LET before == BuildToolAfter(platform, files, k - 1)
             matches == _find_pattern_matches(PLATFORM_FILES[platform].primary[k], files)
         IN  IF matches = {} THEN before
             ELSE CASE platform = "java" ->
                          IF "pom.xml" \in matches THEN "Maven"
                          ELSE IF \E m \in matches : Contains(m, "gradle") THEN "Gradle"
                          ELSE before
                    [] platform = "nodejs" -> _detect_nodejs_build_tool(files)
                    [] platform = "dotnet" -> "dotnet"
                    [] platform = "go" -> "go"
                    [] platform = "python" -> "pip"
                    [] platform = "rust" -> "cargo"
                    [] platform = "php" -> "composer"
                    [] platform = "ruby" -> "bundle"
                    [] OTHER -> before

\* mutant: a directory the walk ignores does not count
_check_structure_indicators_NotIgnored(platform, project) ==
    Cardinality({k \in 1..Len(PLATFORM_FILES[platform].structure_indicators) :
        /\ PathExists(project, PLATFORM_FILES[platform].structure_indicators[k])
        /\ Basename(PLATFORM_FILES[platform].structure_indicators[k]) \notin IGNORED_DIRS})

\* found += 1 for every indicator with os.path.exists
_check_structure_indicators(platform, project) ==
    Cardinality({k \in 1..Len(PLATFORM_FILES[platform].structure_indicators) :
        PathExists(project, PLATFORM_FILES[platform].structure_indicators[k])})

_check_config_files(platform, files) ==
    Cardinality({k \in 1..Len(PLATFORM_FILES[platform].config_files) :
        \E f \in files : Contains(f, PLATFORM_FILES[platform].config_files[k])})

_check_package_json_dependency(project, dependency) ==
    IF ~PathExists(project, "package.json") THEN FALSE
    ELSE IF OpenRaises(project, "package.json") THEN FALSE
    ELSE LET package_data == JsonLoad(project.files["package.json"])
         IN  /\ package_data.valid
             /\ dependency \in package_data.dependencies \cup package_data.devDependencies

_check_dotnet_project_file(files, project, indicator) ==
    \/ \E f \in files : Contains(f, indicator)
    \/ \E f \in files :
          /\ EndsWith(f, ".csproj")
          /\ ~OpenRaises(project, f)
          /\ Contains(DecodeIgnore(project.files[f]), indicator)

\* mutant: every platform takes a trigger for a substring of the path
IndicatorMatches_PathOnly(platform, files, project, indicator) ==
    \E f \in files : Contains(f, indicator)

\* one trigger string of a framework, as the platform checks it
IndicatorMatches(platform, files, project, indicator) ==
    IF platform = "nodejs" THEN _check_package_json_dependency(project, indicator)
    ELSE IF platform = "dotnet" THEN _check_dotnet_project_file(files, project, indicator)
    ELSE \E f \in files : Contains(f, indicator)

FrameworkMatches(platform, files, project, k) ==
    LET fw == PLATFORM_FILES[platform].framework_indicators[k]
    IN  \E i \in 1..Len(fw.indicators) :
            IndicatorMatches(platform, files, project, fw.indicators[i])

\* mutant: the last framework one of whose triggers matches
RECURSIVE FirstFramework_Last(_, _, _, _)
FirstFramework_Last(platform, files, project, k) ==
    IF k > Len(PLATFORM_FILES[platform].framework_indicators) THEN None
    ELSE LET later == FirstFramework_Last(platform, files, project, k + 1)
         IN  IF later # None THEN later
             ELSE IF FrameworkMatches(platform, files, project, k)
             THEN PLATFORM_FILES[platform].framework_indicators[k].name
             ELSE None

\* the first framework, from the k-th on, one of whose triggers matches
RECURSIVE FirstFramework(_, _, _, _)
FirstFramework(platform, files, project, k) ==
    IF k > Len(PLATFORM_FILES[platform].framework_indicators) THEN None
    ELSE IF FrameworkMatches(platform, files, project, k)
    THEN PLATFORM_FILES[platform].framework_indicators[k].name
    ELSE FirstFramework(platform, files, project, k + 1)

_detect_framework(platform, files, project) ==
    FirstFramework(platform, files, project, 1)

\* pattern_match of _check_content_patterns
ContentFileMatch(file_pattern, f) ==
    IF StartsWith(file_pattern, "*")
    THEN EndsWith(Basename(f), DropFirst(file_pattern))
    ELSE file_pattern = Basename(f)

\* any(pattern.lower() in content.lower() for pattern in patterns), content
\* given in lower case
AnyPatternIn(content, patterns) ==
    \E i \in 1..Len(patterns) : Contains(content, Lower(patterns[i]))

\* one file, read and compared with the substrings of one group
ContentHit(project, f, patterns) ==
    /\ IsFile(project, f)
    /\ AnyPatternIn(Lower(_read_file_content(project, f, MAX_BYTES)), patterns)

\* mutant: no file is remembered as checked
RECURSIVE ContentScanOf_Rechecks(_, _, _, _)
ContentScanOf_Rechecks(groups, project, files, k) ==
    IF k = 0 THEN [matches |-> 0, checked_files |-> {}, opened |-> 0]
    ELSE LET before == ContentScanOf_Rechecks(groups, project, files, k - 1)
             fresh == {f \in files : ContentFileMatch(groups[k].file_pattern, f)}
             hits == {f \in fresh : ContentHit(project, f, groups[k].patterns)}
         IN  [matches |-> before.matches + Cardinality(hits),
              checked_files |-> before.checked_files \cup fresh,
              opened |-> before.opened
                            + Cardinality({f \in fresh : IsFile(project, f)})]

\* [matches, checked_files] after the first k groups of a content_patterns
\* table, and the number of _read_file_content calls made for them
RECURSIVE ContentScanOf(_, _, _, _)
ContentScanOf(groups, project, files, k) ==
    IF k = 0 THEN [matches |-> 0, checked_files |-> {}, opened |-> 0]
    ELSE LET before == ContentScanOf(groups, project, files, k - 1)
             fresh == {f \in files \ before.checked_files :
                          ContentFileMatch(groups[k].file_pattern, f)}
             hits == {f \in fresh : ContentHit(project, f, groups[k].patterns)}
         IN  [matches |-> before.matches + Cardinality(hits),
              checked_files |-> before.checked_files \cup fresh,
              opened |-> before.opened
                            + Cardinality({f \in fresh : IsFile(project, f)})]

\* the scan of the groups of a platform of the catalog
ContentScan(platform, project, files, k) ==
    ContentScanOf(PLATFORM_FILES[platform].content_patterns, project, files, k)

_check_content_patterns(platform, project, files) ==
    ContentScan(platform, project, files,
                Len(PLATFORM_FILES[platform].content_patterns)).matches

_get_language_info(platform) ==
    CASE platform = "java" -> <<"Java", TRUE>>
      [] platform = "nodejs" -> <<"Node.js", TRUE>>
      [] platform = "python" -> <<"Python", FALSE>>
      [] platform = "dotnet" -> <<".NET", TRUE>>
      [] platform = "go" -> <<"Go", TRUE>>
      [] platform = "rust" -> <<"Rust", TRUE>>
      [] platform = "php" -> <<"PHP", FALSE>>
      [] platform = "ruby" -> <<"Ruby", FALSE>>
      [] OTHER -> <<"Unknown", FALSE>>

\* build_commands.get(build_tool.value)
CommandFor(platform, build_tool) ==
    LET table == BUILD_COMMANDS[platform]
        found == {k \in 1..Len(table) : table[k].tool = build_tool}
    IN  IF found = {} THEN None ELSE table[CHOOSE k \in found : TRUE].command

\* (build_command, install_command)
_get_commands(platform, build_tool) ==
    IF platform = "python" THEN <<None, "pip install -r requirements.txt">>
    ELSE IF build_tool = None THEN <<None, None>>
    ELSE IF CommandFor(platform, build_tool) # None
    THEN <<CommandFor(platform, build_tool), None>>
    ELSE IF Len(BUILD_COMMANDS[platform]) = 1
    THEN <<BUILD_COMMANDS[platform][1].command, None>>
    ELSE <<None, None>>

(***************************************************************************)
(* services/detector.py: the score aggregator                              *)
(***************************************************************************)

\* mutant: the cap at the category weight is forgotten
ScaledScore_NoCap(found, weight) == FTimes(found, FHalf(weight))

\* min(found * (weight / 2), weight)
ScaledScore(found, weight) == FMin(FTimes(found, FHalf(weight)), weight)

\* if <signal>: score += gain
ScoreAdd(score, signal, gain) == IF signal THEN FAdd(score, gain) ELSE score

\* mutant: every hit earns the full weight, nothing is capped or clamped
ConfidenceScore_Unbounded(W, primary_found, secondary_found, structure_found, config_found, framework, content_matches) ==
    LET s1 == FAdd(F0_0, FTimes(primary_found, W.primary_file))
        s2 == FAdd(s1, FTimes(secondary_found, W.secondary_file))
        s3 == FAdd(s2, FTimes(structure_found, W.structure_indicator))
        s4 == FAdd(s3, FTimes(config_found, W.config_file))
        s5 == IF framework # None THEN FAdd(s4, W.framework_match) ELSE s4
    IN  FAdd(s5, FTimes(content_matches, W.content_match))

\* the score of _detect_platform from its six signals: the sums in the
\* order of the source, and the clamp of the returned value
ConfidenceScore(W, primary_found, secondary_found, structure_found, config_found, framework, content_matches) ==
    FMin(ScoreAdd(ScoreAdd(ScoreAdd(ScoreAdd(ScoreAdd(ScoreAdd(F0_0,
            primary_found > 0, W.primary_file),
            secondary_found > 0, ScaledScore(secondary_found, W.secondary_file)),
            structure_found > 0, ScaledScore(structure_found, W.structure_indicator)),
            config_found > 0, ScaledScore(config_found, W.config_file)),
            framework # None, W.framework_match),
            content_matches > 0, ScaledScore(content_matches, W.content_match)),
         F1_0)

(***************************************************************************)
(* models/response_models.py                                               *)
(***************************************************************************)

\* mutant: the band boundaries compared with <= instead of <
ConfidenceLevelOf_Inclusive(score) ==
    IF FLeq(score, F0_45) THEN "unreliable"
    ELSE IF FLeq(score, F0_65) THEN "moderate"
    ELSE IF FLeq(score, F0_80) THEN "high"
    ELSE "very_high"

\* the confidence level DetectionResult.__init__ derives from the score
ConfidenceLevelOf(score) ==
    IF FLess(score, F0_45) THEN "unreliable"
    ELSE IF FLess(score, F0_65) THEN "moderate"
    ELSE IF FLess(score, F0_80) THEN "high"
    ELSE "very_high"

\* Field(..., ge=0.0, le=1.0)
ScoreValidates(score) == FLeq(F0_0, score) /\ FLeq(score, F1_0)

\* detected_files is list(set(detected_files)): the order of that list is
\* the one of the process's string hashing, the same for equal sets as long
\* as the process lives; the record keeps the set
DetectionResult(language, framework, build_tool, build_required, build_command, install_command, score, detected) ==
    [primary_language |-> language,
     framework |-> framework,
     build_tool |-> build_tool,
     build_required |-> build_required,
     build_command |-> build_command,
     install_command |-> install_command,
     confidence_score |-> score,
     confidence_level |-> ConfidenceLevelOf(score),
     detected_files |-> detected]

(***************************************************************************)
(* services/detector.py: one platform, all platforms, the selection        *)
(***************************************************************************)

\* the six signals of one platform
Signals(platform, files, project) ==
    [primary_found |->
        Cardinality(MatchedPatterns(PLATFORM_FILES[platform].primary, files)),
     secondary_found |->
        Cardinality(MatchedPatterns(PLATFORM_FILES[platform].secondary, files)),
     structure_found |-> _check_structure_indicators(platform, project),
     config_found |-> _check_config_files(platform, files),
     framework |-> _detect_framework(platform, files, project),
     content_matches |-> _check_content_patterns(platform, project, files)]

\* mutant: the matches of the secondary patterns are not kept
DetectionFrom_PrimaryOnly(W, platform, files, sig, build_tool) ==
    LET info == _get_language_info(platform)
        commands == _get_commands(platform, build_tool)
    IN  DetectionResult(info[1], sig.framework, build_tool, info[2],
            commands[1], commands[2],
            ConfidenceScore(W, sig.primary_found, sig.secondary_found,
                            sig.structure_found, sig.config_found,
                            sig.framework, sig.content_matches),
            MatchedFiles(PLATFORM_FILES[platform].primary, files))

\* the DetectionResult _detect_platform builds from what it found
DetectionFrom(W, platform, files, sig, build_tool) ==
    LET info == _get_language_info(platform)
        commands == _get_commands(platform, build_tool)
    IN  DetectionResult(info[1], sig.framework, build_tool, info[2],
            commands[1], commands[2],
            ConfidenceScore(W, sig.primary_found, sig.secondary_found,
                            sig.structure_found, sig.config_found,
                            sig.framework, sig.content_matches),
            MatchedFiles(PLATFORM_FILES[platform].primary, files)
                \cup MatchedFiles(PLATFORM_FILES[platform].secondary, files))

_detect_platform(W, platform, files, project) ==
    DetectionFrom(W, platform, files, Signals(platform, files, project),
                  BuildToolAfter(platform, files,
                                 Len(PLATFORM_FILES[platform].primary)))

\* mutant: >= 0 instead of > 0
KeepsDetection_Any(detection) == FLeq(F0_0, detection.confidence_score)

\* if detection.confidence_score > 0
KeepsDetection(detection) == FLess(F0_0, detection.confidence_score)

\* if detection.confidence_score > 0: results.append(detection)
AppendKept(results, detection) ==
    IF KeepsDetection(detection) THEN Append(results, detection) ELSE results

\* results after the first k platforms of the catalog
RECURSIVE AnalyzeUpTo(_, _, _, _)
AnalyzeUpTo(W, files, project, k) ==
    IF k = 0 THEN <<>>
    ELSE AppendKept(AnalyzeUpTo(W, files, project, k - 1),
                    _detect_platform(W, PLATFORMS[k], files, project))

_analyze_files(W, files, project) == AnalyzeUpTo(W, files, project, Len(PLATFORMS))

_create_unknown_result ==
    DetectionResult("Unknown", None, None, FALSE, None, None, F0_0, {})

\* mutant: reverse=True is forgotten
SortsBefore_Ascending(x, y) == FLess(x.confidence_score, y.confidence_score)

\* key=lambda x: x.confidence_score, reverse=True: x goes before y
SortsBefore(x, y) == FLess(y.confidence_score, x.confidence_score)

\* mutant: a sort that puts an element before the ones equal to it
RECURSIVE SortByScore_Unstable(_)
SortByScore_Unstable(s) ==
    IF Len(s) <= 1 THEN s
    ELSE LET front == SortByScore_Unstable(SubSeq(s, 1, Len(s) - 1))
             x == s[Len(s)]
             n == Cardinality({i \in 1..Len(front) : SortsBefore(front[i], x)})
         IN  SubSeq(front, 1, n) \o <<x>> \o SubSeq(front, n + 1, Len(front))

\* list.sort: stable, elements neither of which goes before the other keep
\* their order
RECURSIVE SortByScore(_)
SortByScore(s) ==
    IF Len(s) <= 1 THEN s
    ELSE LET front == SortByScore(SubSeq(s, 1, Len(s) - 1))
             x == s[Len(s)]
             n == Cardinality({i \in 1..Len(front) : ~SortsBefore(x, front[i])})
         IN  SubSeq(front, 1, n) \o <<x>> \o SubSeq(front, n + 1, Len(front))

\* mutant: the comparison the wrong way round
MeetsThreshold_Reversed(d, min_confidence) == FLeq(d.confidence_score, min_confidence)

\* d.confidence_score >= self.min_confidence
MeetsThreshold(d, min_confidence) == FLeq(min_confidence, d.confidence_score)

\* [d for d in detections if d.confidence_score >= self.min_confidence]
FilterByConfidence(detections, min_confidence) ==
    LET Meets(d) == MeetsThreshold(d, min_confidence)
    IN  SelectSeq(detections, Meets)

\* mutant: no synthetic unknown result when nothing was detected
SelectDetections_NoUnknown(detections, min_confidence) ==
    LET valid_detections == FilterByConfidence(detections, min_confidence)
    IN  IF valid_detections # <<>> THEN valid_detections ELSE detections

\* mutant: when nothing meets the threshold the detections are given up
SelectDetections_NoFallback(detections, min_confidence) ==
    LET valid_detections == FilterByConfidence(detections, min_confidence)
    IN  IF valid_detections # <<>> THEN valid_detections
        ELSE <<_create_unknown_result>>

\* mutant: the unknown result is added whenever nothing meets the threshold
SelectDetections_UnknownToo(detections, min_confidence) ==
    LET valid_detections == FilterByConfidence(detections, min_confidence)
    IN  IF valid_detections # <<>> THEN valid_detections
        ELSE Append(detections, _create_unknown_result)

\* the detections scan_project keeps, before the sort
SelectDetections(detections, min_confidence) ==
    LET valid_detections == FilterByConfidence(detections, min_confidence)
    IN  IF valid_detections # <<>> THEN valid_detections
        ELSE IF detections # <<>> THEN detections
        ELSE <<_create_unknown_result>>

\* ProjectDetector.__init__; given is the argument, kept to tell what the
\* caller asked for
NewProjectDetector(given) ==
    [constructed |-> TRUE,
     given |-> given,
     min_confidence |-> FMax(F0_0, FMin(F1_0, given))]

\* a call that ended in an exception
Raised(self, max_depth) ==
    [returned |-> FALSE, given |-> self.given, max_depth |-> max_depth,
     detections |-> <<>>, primary |-> _create_unknown_result,
     min_confidence_threshold |-> self.min_confidence]

\* min_confidence_threshold=self.min_confidence
ReportedThreshold(self) == self.min_confidence

\* the value scan_project returns.  DetectionResult raises a ValidationError
\* for a score outside [0, 1] (a score below 0 cannot arise, the others are
\* in detections), valid_detections[0] raises an IndexError on an empty list
MultiDetectionResult(self, max_depth, detections, valid_detections) ==
    IF \E i \in 1..Len(detections) : ~ScoreValidates(detections[i].confidence_score)
    THEN Raised(self, max_depth)
    ELSE IF valid_detections = <<>>
    THEN Raised(self, max_depth)
    ELSE [returned |-> TRUE, given |-> self.given, max_depth |-> max_depth,
          detections |-> valid_detections,
          primary |-> valid_detections[1],
          min_confidence_threshold |-> ReportedThreshold(self)]

\* the filter, the fallbacks and the sort of scan_project
ValidDetections(self, max_depth, detections) ==
    MultiDetectionResult(self, max_depth, detections,
        SortByScore(SelectDetections(detections, self.min_confidence)))

scan_project(self, W, project, max_depth) ==
    ValidDetections(self, max_depth,
        _analyze_files(W, _scan_directory(project, max_depth), project))

\* mutant: a scan lowers the threshold of its detector to the best score
SelfAfterScan_Adapts(self, returned) ==
    [self EXCEPT !.min_confidence =
        FMin(self.min_confidence, returned.primary.confidence_score)]

\* the detector after a scan: scan_project assigns no attribute of self
SelfAfterScan(self, returned) == self

\* the rule catalog after a scan: no method writes to DetectionRules
RulesAfterScan(catalog, returned) == catalog

(***************************************************************************)
(* Bounds and inputs                                                       *)
(***************************************************************************)

\* the most entries (files, and directories made empty) a project is given
MaxEntries == 3

\* the deepest max_depth a caller asks for
MaxDepthArg == 4

\* max_depth: int = 3
DEFAULT_MAX_DEPTH == 3

\* the files a project is made of: [path, text]
FilePool ==
    {[path |-> "pom.xml", text |-> "<project></project>"],
     [path |-> "package.json", text |-> PKG_REACT],
     [path |-> "requirements.txt", text |-> "flask==2.0"],
     [path |-> "app.py", text |-> "from flask import Flask"],
     [path |-> "pyproject.toml", text |-> "[tool.poetry]"],
     [path |-> "yarn.lock", text |-> ""],
     [path |-> "src/setup.cfg", text |-> "[metadata]"],
     [path |-> "src/main/java/App.java", text |-> "@SpringBootApplication class App {}"],
     [path |-> "random.txt", text |-> "random content"]}

\* the directories a project is given without a file in them
DirPool == {"src/test/java"}

\* the min_confidence arguments: the default 0.45, 0.80, and 1.5
F1_5 == <<402653184, 0>>

MinConfidenceInputs == {F0_45, F0_80, F1_5}

DepthInputs == {DEFAULT_MAX_DEPTH, MaxDepthArg}

(***************************************************************************)
(* State                                                                   *)
(***************************************************************************)

VARIABLES
    files,      \* the project's files: path -> text
    dirs,       \* the project's directories
    made,       \* the directories made on their own (they count as entries)
    rules,      \* DetectionRules: the class attributes every detector shares
    detector,   \* the ProjectDetector in use
    faults,     \* [denied, dangling]: what of the project cannot be read
    result,     \* what the last scan_project call returned, until the caller drops it
    memo,       \* an earlier result on the same directory the caller kept
    evaluation  \* the locals of the _detect_platform calls of an analysis under way

vars == <<files, dirs, made, faults, rules, detector, result, memo, evaluation>>

Project ==
    [files |-> files, dirs |-> dirs,
     denied |-> faults.denied, dangling |-> faults.dangling]

NoDetector == [constructed |-> FALSE, given |-> F0_0, min_confidence |-> F0_0]

NoResult ==
    [returned |-> FALSE, given |-> F0_0, max_depth |-> 0, detections |-> <<>>,
     primary |-> _create_unknown_result, min_confidence_threshold |-> F0_0]

\* the locals of _detect_platform before its first loop
Idle ==
    [pc |-> "idle", primary_found |-> 0, secondary_found |-> 0,
     build_tool |-> None, detected_files |-> {},
     detection |-> _create_unknown_result]

NoEvaluation ==
    [started |-> FALSE, files |-> {}, local |-> [p \in Range(PLATFORMS) |-> Idle]]

Init ==
    /\ evaluation = NoEvaluation
    /\ files = <<>>
    /\ dirs = {}
    /\ made = {}
    /\ faults = [denied |-> {}, dangling |-> {}]
    /\ rules = [SCORE_WEIGHTS |-> SCORE_WEIGHTS]
    /\ detector = NoDetector
    /\ result = NoResult
    /\ memo = NoResult

(***************************************************************************)
(* Actions                                                                 *)
(***************************************************************************)

Entries ==
    Cardinality(DOMAIN files) + Cardinality(made) + Cardinality(faults.dangling)

\* a file is written into the project (os.makedirs of its directory, open,
\* write); results of the directory as it was are of no use any more
CreateFile(e) ==
    /\ result = NoResult
    /\ Entries < MaxEntries
    /\ e.path \notin DOMAIN files
    /\ e.path \notin dirs
    /\ \A a \in Ancestors(e.path) : a \notin DOMAIN files
    /\ files' = files @@ (e.path :> e.text)
    /\ dirs' = dirs \cup Ancestors(e.path)
    /\ memo' = NoResult
    /\ UNCHANGED <<evaluation, made, faults, rules, detector, result>>

\* os.makedirs(d)
MakeDirs(d) ==
    /\ result = NoResult
    /\ Entries < MaxEntries
    /\ d \notin dirs
    /\ \A a \in {d} \cup Ancestors(d) : a \notin DOMAIN files
    /\ dirs' = dirs \cup {d} \cup Ancestors(d)
    /\ made' = made \cup {d}
    /\ memo' = NoResult
    /\ UNCHANGED <<evaluation, files, faults, rules, detector, result>>

\* detector = ProjectDetector(min_confidence)
Construct(min_confidence) ==
    /\ result = NoResult
    /\ detector' = NewProjectDetector(min_confidence)
    /\ UNCHANGED <<evaluation, files, dirs, made, faults, rules, result, memo>>

\* result = detector.scan_project(project_path, max_depth)
Scan(max_depth) ==
    /\ detector.constructed
    /\ result = NoResult
    /\ result' = scan_project(detector, rules.SCORE_WEIGHTS, Project, max_depth)
    /\ detector' = SelfAfterScan(detector, result')
    /\ rules' = RulesAfterScan(rules, result')
    /\ UNCHANGED <<evaluation, files, dirs, made, faults, memo>>

\* the caller is done with the result
Drop ==
    /\ result # NoResult
    /\ result' = NoResult
    /\ UNCHANGED <<evaluation, files, dirs, made, faults, rules, detector, memo>>

\* the caller keeps the result to compare a later one with
Keep ==
    /\ result # NoResult
    /\ memo' = result
    /\ result' = NoResult
    /\ UNCHANGED <<evaluation, files, dirs, made, faults, rules, detector>>

Next ==
    \/ \E e \in FilePool : CreateFile(e)
    \/ \E d \in DirPool : MakeDirs(d)
    \/ \E m \in MinConfidenceInputs : Construct(m)
    \/ \E n \in DepthInputs : Scan(n)
    \/ Drop

Spec == Init /\ [][Next]_vars

(***************************************************************************)
(* What the claims speak of                                                *)
(***************************************************************************)

\* the file list of the scan that returned result
Scanned == _scan_directory(Project, result.max_depth)

\* every platform of the catalog as that scan evaluated it
Evaluated ==
    [k \in 1..Len(PLATFORMS) |->
        _detect_platform(rules.SCORE_WEIGHTS, PLATFORMS[k], Scanned, Project)]

\* the platforms with a score above 0.0
NonZero(ev) == {k \in DOMAIN ev : FLess(F0_0, ev[k].confidence_score)}

\* 0.0 <= x <= 1.0
InUnit(x) == FLeq(F0_0, x) /\ FLeq(x, F1_0)

\* C1: every scan_project call returns, and the detections it returns have
\* at least one element, whatever the directory, max_depth and min_confidence
C1_NonEmpty ==
    result # NoResult => result.returned /\ Len(result.detections) >= 1

\* an empty directory was scanned
C1_Witness ==
    /\ result.returned
    /\ DOMAIN files = {}
    /\ dirs = {}
    /\ Len(result.detections) = 1

\* C2: when some platform scores above 0.0 and none reaches the requested
\* min_confidence (a value in [0, 1]), the detections returned are all the
\* platforms with a score above 0.0, and min_confidence_threshold is the
\* requested value
C2_ThresholdFallback ==
    (result # NoResult /\ InUnit(result.given)) =>
        LET ev == Evaluated
            nz == NonZero(ev)
        IN  (/\ nz # {}
             /\ \A k \in nz : FLess(ev[k].confidence_score, result.given))
            => /\ result.returned
               /\ Range(result.detections) = {ev[k] : k \in nz}
               /\ Len(result.detections) = Cardinality(nz)
               /\ result.min_confidence_threshold = result.given

\* requirements.txt alone reaches 0.35 + 0.05 and is returned under 0.80
C2_Witness ==
    /\ result.returned
    /\ result.given = F0_80
    /\ DOMAIN files = {"requirements.txt"}
    /\ Len(result.detections) = 1
    /\ result.primary.primary_language = "Python"
    /\ FLess(result.primary.confidence_score, F0_45)
    /\ result.min_confidence_threshold = F0_80

\* C3: when some platform with a score above 0.0 reaches min_confidence, the
\* detections returned are exactly the platforms with a score above 0.0
\* that reach it
C3_ThresholdFilter ==
    result # NoResult =>
        LET ev == Evaluated
            meet == {k \in NonZero(ev) : FLeq(result.given, ev[k].confidence_score)}
        IN  meet # {}
            => /\ result.returned
               /\ Range(result.detections) = {ev[k] : k \in meet}
               /\ Len(result.detections) = Cardinality(meet)

\* a candidate met the threshold and another one was filtered out
C3_Witness ==
    /\ result.returned
    /\ result.primary.primary_language # "Unknown"
    /\ FLeq(result.given, result.primary.confidence_score)
    /\ Cardinality(NonZero(Evaluated)) > Len(result.detections)

\* C4: when every platform scores 0.0, the result holds exactly one
\* detection: language unknown, score 0.0, no detected files; it is the
\* primary
C4_AllZeroUnknown ==
    result # NoResult =>
        ((LET ev == Evaluated
          IN  \A k \in 1..Len(PLATFORMS) : ev[k].confidence_score = F0_0)
         => /\ result.returned
            /\ Len(result.detections) = 1
            /\ result.detections[1].primary_language = "Unknown"
            /\ result.detections[1].confidence_score = F0_0
            /\ result.detections[1].detected_files = {}
            /\ result.primary = result.detections[1])

\* a directory with one irrelevant file was scanned
C4_Witness ==
    /\ result.returned
    /\ DOMAIN files = {"random.txt"}
    /\ result.primary.primary_language = "Unknown"

\* C5: the detections returned are in non-increasing order of score, and
\* primary is the first of them
C5_Ordered ==
    result.returned =>
        /\ \A i, j \in 1..Len(result.detections) :
              i < j => FLeq(result.detections[j].confidence_score,
                            result.detections[i].confidence_score)
        /\ result.primary = result.detections[1]
        /\ \A i \in 1..Len(result.detections) :
              FLeq(result.detections[i].confidence_score,
                   result.primary.confidence_score)

\* python, later in the catalog than java, outranks it
C5_Witness ==
    /\ result.returned
    /\ Len(result.detections) = 2
    /\ result.detections[1].primary_language = "Python"
    /\ result.detections[2].primary_language = "Java"
    /\ FLess(result.detections[2].confidence_score,
             result.detections[1].confidence_score)

\* C6: every score, of a returned detection and of any platform evaluated,
\* lies in [0.0, 1.0], and no scan fails on a score out of range
C6_Bounded ==
    result # NoResult =>
        /\ result.returned
        /\ \A i \in 1..Len(result.detections) :
              InUnit(result.detections[i].confidence_score)
        /\ LET ev == Evaluated
           IN  \A k \in 1..Len(PLATFORMS) : InUnit(ev[k].confidence_score)

\* a detection in the highest band, five of its six signals hit
C6_Witness ==
    /\ result.returned
    /\ FLeq(F0_80, result.primary.confidence_score)
    /\ result.primary.confidence_level = "very_high"

\* the contribution of a scaled category: nothing without a hit, half the
\* weight for one hit, the weight for two or more
SpecScaled(h, w) == IF h = 0 THEN F0_0 ELSE IF h = 1 THEN FHalf(w) ELSE w

\* the score the spec gives for the signals, summed in doubles in the order
\* primary, secondary, structure, config, framework, content
SpecScore(sig) ==
    LET p == IF sig.primary_found >= 1 THEN F0_35 ELSE F0_0
        f == IF sig.framework # None THEN F0_20 ELSE F0_0
        total ==
            FAdd(FAdd(FAdd(FAdd(FAdd(p,
                SpecScaled(sig.secondary_found, F0_10)),
                SpecScaled(sig.structure_found, F0_15)),
                SpecScaled(sig.config_found, F0_10)),
                f),
                SpecScaled(sig.content_matches, F0_10))
    IN  IF FLess(F1_0, total) THEN F1_0 ELSE total

\* C7: the score of every platform is the spec's formula of its six signals
C7_ScoreFormula ==
    result # NoResult =>
        LET ev == Evaluated
            listed == Scanned
        IN  \A k \in 1..Len(PLATFORMS) :
                ev[k].confidence_score
                    = SpecScore(Signals(PLATFORMS[k], listed, Project))

\* python with two primary files (one primary weight), one secondary hit
\* (half weight) and three content hits (full weight)
C7_Witness ==
    /\ result.returned
    /\ LET sig == Signals("python", Scanned, Project)
       IN  /\ sig.primary_found = 2
           /\ sig.secondary_found = 1
           /\ sig.content_matches = 3

\* the band of a score
SpecLevel(score) ==
    CASE FLess(score, F0_45) -> "unreliable"
      [] FLeq(F0_45, score) /\ FLess(score, F0_65) -> "moderate"
      [] FLeq(F0_65, score) /\ FLess(score, F0_80) -> "high"
      [] FLeq(F0_80, score) -> "very_high"

\* C8: the confidence level of every returned detection is the band of its
\* score, a score on a boundary being in the upper band
C8_LevelOfScore ==
    result.returned =>
        \A d \in Range(result.detections) \cup {result.primary} :
            /\ d.confidence_level = SpecLevel(d.confidence_score)
            /\ d.confidence_score = F0_45 => d.confidence_level = "moderate"
            /\ d.confidence_score = F0_65 => d.confidence_level = "high"
            /\ d.confidence_score = F0_80 => d.confidence_level = "very_high"

\* a score of exactly 0.65 is in the band high
C8_Witness ==
    /\ result.returned
    /\ result.primary.confidence_score = F0_65
    /\ result.primary.confidence_level = "high"

(***************************************************************************)
(* Files are added to a directory: the score of a platform before and      *)
(* after                                                                   *)
(***************************************************************************)

NextFiles ==
    \/ \E e \in FilePool : CreateFile(e)
    \/ \E d \in DirPool : MakeDirs(d)

SpecFiles == Init /\ [][NextFiles]_vars

\* the score a scan of max_depth gives the platform in a project
ScoreOf(project, platform, max_depth) ==
    _detect_platform(rules.SCORE_WEIGHTS, platform,
                     _scan_directory(project, max_depth), project).confidence_score

\* a file name pattern of the catalog against one path
NameMatches(pattern, path) ==
    IF StartsWith(pattern, "*") THEN EndsWith(path, DropFirst(pattern))
    ELSE IF Contains(pattern, "/") THEN Contains(path, pattern)
    ELSE Basename(path) = pattern

MatchesPrimary(platform, e) ==
    \E i \in DOMAIN PLATFORM_FILES[platform].primary :
        NameMatches(PLATFORM_FILES[platform].primary[i], e.path)

MatchesSecondary(platform, e) ==
    \E i \in DOMAIN PLATFORM_FILES[platform].secondary :
        NameMatches(PLATFORM_FILES[platform].secondary[i], e.path)

\* the file is, or lies in, a directory the platform looks for
MatchesStructure(platform, e) ==
    \E i \in DOMAIN PLATFORM_FILES[platform].structure_indicators :
        LET indicator == PLATFORM_FILES[platform].structure_indicators[i]
        IN  indicator = e.path \/ indicator \in Ancestors(e.path)

MatchesConfig(platform, e) ==
    \E i \in DOMAIN PLATFORM_FILES[platform].config_files :
        Contains(e.path, PLATFORM_FILES[platform].config_files[i])

\* one framework trigger against the file: a dependency of the root
\* package.json for nodejs, the path or the text of a .csproj for dotnet,
\* the path for the others
TriggerHit(platform, e, trigger) ==
    CASE platform = "nodejs" ->
            /\ e.path = "package.json"
            /\ JsonLoad(e.text).valid
            /\ trigger \in JsonLoad(e.text).dependencies
                              \cup JsonLoad(e.text).devDependencies
      [] platform = "dotnet" ->
            \/ Contains(e.path, trigger)
            \/ EndsWith(e.path, ".csproj") /\ Contains(e.text, trigger)
      [] OTHER -> Contains(e.path, trigger)

MatchesTrigger(platform, e) ==
    \E k \in DOMAIN PLATFORM_FILES[platform].framework_indicators :
        \E i \in DOMAIN PLATFORM_FILES[platform].framework_indicators[k].indicators :
            TriggerHit(platform, e,
                PLATFORM_FILES[platform].framework_indicators[k].indicators[i])

MatchesContent(platform, e) ==
    \E k \in DOMAIN PLATFORM_FILES[platform].content_patterns :
        LET group == PLATFORM_FILES[platform].content_patterns[k]
            name == Basename(e.path)
        IN  /\ IF StartsWith(group.file_pattern, "*")
               THEN EndsWith(name, DropFirst(group.file_pattern))
               ELSE name = group.file_pattern
            /\ \E i \in DOMAIN group.patterns :
                   Contains(Lower(e.text), Lower(group.patterns[i]))

\* the file matches a pattern of one of the scaled categories
MatchesScaled(platform, e) ==
    \/ MatchesSecondary(platform, e)
    \/ MatchesStructure(platform, e)
    \/ MatchesConfig(platform, e)
    \/ MatchesContent(platform, e)

\* the file matches a pattern of the platform, of any category
MatchesAny(platform, e) ==
    \/ MatchesPrimary(platform, e)
    \/ MatchesScaled(platform, e)
    \/ MatchesTrigger(platform, e)

\* the file lists of a scan before and after a step, one pair for each
\* max_depth
ListingPairs ==
    {<<_scan_directory(Project, n), _scan_directory(Project', n)>> : n \in DepthInputs}

\* C9: when a file is added to a directory, then for an unchanged max_depth
\* the score of a platform one of whose secondary, structure, config or
\* content patterns the file matches does not decrease, and the score of a
\* platform rises only if the file matches one of its patterns (primary,
\* secondary, structure, config, framework trigger or content)
C9_Monotone ==
    [][\A e \in FilePool :
          CreateFile(e) =>
              \A pair \in ListingPairs :
                  \A k \in 1..Len(PLATFORMS) :
                      LET before == _detect_platform(rules.SCORE_WEIGHTS,
                                        PLATFORMS[k], pair[1], Project).confidence_score
                          after == _detect_platform(rules.SCORE_WEIGHTS,
                                        PLATFORMS[k], pair[2], Project').confidence_score
                      IN  /\ MatchesScaled(PLATFORMS[k], e) => FLeq(before, after)
                          /\ FLess(before, after) => MatchesAny(PLATFORMS[k], e)
      ]_vars

\* the project without one of its files
Without(project, path) ==
    [files |-> [f \in DOMAIN project.files \ {path} |-> project.files[f]],
     dirs |-> project.dirs,
     denied |-> project.denied \ {path},
     dangling |-> project.dangling \ {path}]

\* app.py, a secondary file of python, was added to requirements.txt: the
\* score of python rose, and no score of another platform did
C9_Witness ==
    /\ DOMAIN files = {"requirements.txt", "app.py"}
    /\ result = NoResult
    /\ MatchesSecondary("python", [path |-> "app.py", text |-> files["app.py"]])
    /\ FLess(ScoreOf(Without(Project, "app.py"), "python", DEFAULT_MAX_DEPTH),
             ScoreOf(Project, "python", DEFAULT_MAX_DEPTH))
    /\ \A k \in 1..Len(PLATFORMS) :
          PLATFORMS[k] # "python" =>
              ScoreOf(Without(Project, "app.py"), PLATFORMS[k], DEFAULT_MAX_DEPTH)
                  = ScoreOf(Project, PLATFORMS[k], DEFAULT_MAX_DEPTH)

(***************************************************************************)
(* One directory, never modified, scanned again and again                  *)
(***************************************************************************)

\* the directories scanned: the paths of their files
Scenarios ==
    {{},
     {"random.txt"},
     {"requirements.txt"},
     {"pom.xml", "src/main/java/App.java"},
     {"package.json", "yarn.lock"},
     {"pom.xml", "requirements.txt", "app.py"}}

InitIdem ==
    /\ \E paths \in Scenarios :
          /\ files = [f \in paths |-> (CHOOSE e \in FilePool : e.path = f).text]
          /\ dirs = UNION {Ancestors(f) : f \in paths}
    /\ made = {}
    /\ faults = [denied |-> {}, dangling |-> {}]
    /\ rules = [SCORE_WEIGHTS |-> SCORE_WEIGHTS]
    /\ detector = NoDetector
    /\ result = NoResult
    /\ memo = NoResult
    /\ evaluation = NoEvaluation

NextIdem ==
    \/ \E m \in MinConfidenceInputs : Construct(m)
    \/ \E n \in DepthInputs : Scan(n)
    \/ Keep
    \/ Drop

SpecIdem == InitIdem /\ [][NextIdem]_vars

FaultPool ==
    {[path |-> "package.json", text |-> PKG_REACT],
     [path |-> "package.json", text |-> PKG_DEPS_LIST],
     [path |-> "package.json", text |-> PKG_ARRAY],
     [path |-> "package.json", text |-> PKG_BROKEN],
     [path |-> "package.json", text |-> PKG_UNDECODABLE],
     [path |-> "app.py", text |-> "from fl%ask import Flask"],
     [path |-> "src/app.py", text |-> "from flask import Flask"],
     [path |-> "src/Web.csproj", text |-> "Microsoft.AspNetCore"]}

LinkPool == {"pom.xml", "src"}

\* os.chmod(p, 0o000) of a file or a directory of the project
Chmod(p) ==
    /\ result = NoResult
    /\ p \in DOMAIN files \cup dirs
    /\ p \notin faults.denied
    /\ faults' = [faults EXCEPT !.denied = @ \cup {p}]
    /\ memo' = NoResult
    /\ UNCHANGED <<evaluation, files, dirs, made, rules, detector, result>>

\* os.symlink of a target that does not exist, in the root of the project
Symlink(p) ==
    /\ result = NoResult
    /\ Entries < MaxEntries
    /\ p \notin DOMAIN files \cup dirs \cup faults.dangling
    /\ faults' = [faults EXCEPT !.dangling = @ \cup {p}]
    /\ memo' = NoResult
    /\ UNCHANGED <<evaluation, files, dirs, made, rules, detector, result>>

NextFaults ==
    \/ \E e \in FaultPool : CreateFile(e)
    \/ \E p \in DOMAIN files \cup dirs : Chmod(p)
    \/ \E p \in LinkPool : Symlink(p)
    \/ Construct(F0_45)
    \/ Scan(DEFAULT_MAX_DEPTH)
    \/ Drop

SpecFaults == Init /\ [][NextFaults]_vars

\* the files of a project whose bytes cannot be had as text: mode 000, or
\* not UTF-8
Unread(project) ==
    {f \in DOMAIN project.files :
        f \in project.denied \/ Contains(project.files[f], UNDECODABLE)}

\* the project with nothing in its failing items: every file that cannot be
\* read or decoded is empty, every directory that cannot be listed has
\* nothing below it
Silenced(project) ==
    [files |-> [f \in {g \in DOMAIN project.files : ~Shut(project, g)} |->
                   IF f \in Unread(project) THEN "" ELSE project.files[f]],
     dirs |-> {d \in project.dirs : ~Shut(project, d)},
     denied |-> {},
     dangling |-> project.dangling]

\* C11: whatever of the project cannot be read, decoded, parsed or followed,
\* scan_project returns a MultiDetectionResult; it is the result of the
\* project where the failing items hold nothing (no text in a file that
\* cannot be read or decoded, no dependency in a package.json that cannot be
\* parsed, nothing below a directory that cannot be listed), so the failing
\* items add no signal and all other files count as they do without them
C11_NoFatalError ==
    result # NoResult =>
        /\ result.returned
        /\ Len(result.detections) >= 1
        /\ result = scan_project(detector, rules.SCORE_WEIGHTS,
                                 Silenced(Project), result.max_depth)
        /\ (/\ "package.json" \in DOMAIN files
            /\ ~JsonLoad(files["package.json"]).valid)
           => \A i \in 1..Len(result.detections) :
                 result.detections[i].primary_language = "Node.js"
                    => result.detections[i].framework = None

(***************************************************************************)
(* Scans of projects of one or two files, by the names of the files        *)
(***************************************************************************)

IRRELEVANT == "random content"

FLASK_APP == "from flask import Flask"

NamePool ==
    {[path |-> "random.txt", text |-> IRRELEVANT],
     [path |-> "notes.md", text |-> IRRELEVANT],
     [path |-> "test.txt", text |-> IRRELEVANT],
     [path |-> "rocket.txt", text |-> IRRELEVANT],
     [path |-> "app.py", text |-> FLASK_APP],
     [path |-> "server.py", text |-> FLASK_APP],
     [path |-> "main.py", text |-> FLASK_APP],
     [path |-> "flask_site.py", text |-> FLASK_APP],
     [path |-> "urls.py", text |-> FLASK_APP],
     [path |-> "manage.py", text |-> FLASK_APP]}

REQUIREMENTS == [path |-> "requirements.txt", text |-> "flask==2.0"]

\* requirements.txt is written into the empty directory
WriteRequirements ==
    /\ result = NoResult
    /\ files = <<>>
    /\ files' = (REQUIREMENTS.path :> REQUIREMENTS.text)
    /\ memo' = NoResult
    /\ UNCHANGED <<evaluation, dirs, made, faults, rules, detector, result>>

\* the one other file of the directory is written
WriteNamed(e) ==
    /\ result = NoResult
    /\ DOMAIN files \subseteq {REQUIREMENTS.path}
    /\ files' = files @@ (e.path :> e.text)
    /\ memo' = NoResult
    /\ UNCHANGED <<evaluation, dirs, made, faults, rules, detector, result>>

NextNames ==
    \/ WriteRequirements
    \/ \E e \in NamePool : WriteNamed(e)
    \/ \E m \in MinConfidenceInputs : Construct(m)
    \/ \E n \in DepthInputs : Scan(n)
    \/ Drop

SpecNames == Init /\ [][NextNames]_vars

\* the file is no primary, secondary or config file of any platform and its
\* text has no content pattern of any platform
Irrelevant(e) ==
    \A k \in DOMAIN PLATFORMS :
        /\ ~MatchesPrimary(PLATFORMS[k], e)
        /\ ~MatchesSecondary(PLATFORMS[k], e)
        /\ ~MatchesConfig(PLATFORMS[k], e)
        /\ ~MatchesContent(PLATFORMS[k], e)

\* C12: the scan of a directory whose only file is irrelevant, whatever its
\* name, has the unknown platform as primary, with score 0.0 and no
\* detected files
C12_IrrelevantFile ==
    \A e \in NamePool :
        (/\ result # NoResult
         /\ files = (e.path :> e.text)
         /\ Irrelevant(e))
        => /\ result.primary.primary_language = "Unknown"
           /\ result.primary.confidence_score = F0_0
           /\ result.primary.detected_files = {}

\* C13: in the scan of a directory with a requirements.txt that lists flask
\* and a Python file that imports flask, whatever the name of that file, the
\* primary detection is Python, needs no build and has the framework Flask
C13_FlaskProject ==
    \A e \in NamePool :
        (/\ result # NoResult
         /\ files = (REQUIREMENTS.path :> REQUIREMENTS.text) @@ (e.path :> e.text)
         /\ EndsWith(e.path, ".py")
         /\ Contains(e.text, "from flask import"))
        => /\ result.primary.primary_language = "Python"
           /\ ~result.primary.build_required
           /\ result.primary.framework = "Flask"

(***************************************************************************)
(* Scans of projects by their build files and framework files              *)
(***************************************************************************)

BuildPool ==
    {[path |-> "pom.xml", text |-> "<project></project>"],
     [path |-> "build.gradle", text |-> ""],
     [path |-> "build.gradle.kts", text |-> ""],
     [path |-> "package.json", text |-> PKG_REACT],
     [path |-> "pnpm-lock.yaml", text |-> ""],
     [path |-> "yarn.lock", text |-> ""],
     [path |-> "package-lock.json", text |-> "{}"],
     [path |-> "web/yarn.lock", text |-> ""],
     [path |-> "yarn.lock.bak", text |-> ""],
     [path |-> "app.py", text |-> FLASK_APP],
     [path |-> "manage.py", text |-> ""]}

NextBuild ==
    \/ \E e \in BuildPool : CreateFile(e)
    \/ Construct(F0_45)
    \/ Scan(DEFAULT_MAX_DEPTH)
    \/ Drop

SpecBuild == Init /\ [][NextBuild]_vars

\* the detection of a platform in the result, as a set of at most one
DetectionOf(language) ==
    {result.detections[i] : i \in {j \in 1..Len(result.detections) :
        result.detections[j].primary_language = language}}

\* C14: when pom.xml lies in the root of the scanned project, the Java
\* detection has the build tool Maven, whatever other primary files of java
\* were found
C14_PomIsMaven ==
    (result # NoResult /\ "pom.xml" \in Scanned)
        => \A d \in DetectionOf("Java") : d.build_tool = "Maven"

\* a file of that name is among the scanned files
Listed(name) == \E f \in Scanned : Basename(f) = name

\* C15: a Node.js detection with a primary hit has the build tool pnpm when
\* a pnpm-lock.yaml was scanned, else yarn when a yarn.lock was, else npm,
\* with a package-lock.json and with no lock file at all
C15_LockFilePrecedence ==
    (result # NoResult /\ Listed("package.json"))
        => \A d \in DetectionOf("Node.js") :
              d.build_tool = IF Listed("pnpm-lock.yaml") THEN "pnpm"
                             ELSE IF Listed("yarn.lock") THEN "yarn"
                             ELSE "npm"

(***************************************************************************)
(* routes/scan.py: the scan endpoint                                       *)
(***************************************************************************)

\* min_confidence or 0.45: 0.0 is falsy
OrDefault(min_confidence) ==
    IF min_confidence = F0_0 THEN F0_45 ELSE min_confidence

\* raise HTTPException(status_code=400, ...)
HTTPException400(min_confidence) ==
    [returned |-> FALSE, given |-> min_confidence, max_depth |-> 400,
     detections |-> <<>>, primary |-> _create_unknown_result,
     min_confidence_threshold |-> min_confidence]

\* what scan_repository answers for a repository that was fetched into
\* project: the validation of min_confidence, the detector of the request,
\* its scan with the default max_depth
scan_repository(W, project, min_confidence) ==
    IF ~(FLeq(F0_0, min_confidence) /\ FLeq(min_confidence, F1_0))
    THEN HTTPException400(min_confidence)
    ELSE scan_project(NewProjectDetector(OrDefault(min_confidence)), W,
                      project, DEFAULT_MAX_DEPTH)

\* the min_confidence form field of a request; 0.45 when it is left out
FormInputs == {F0_0, F0_35, F0_45, F0_80, F1_0, F1_5}

EndpointPool ==
    {e \in FilePool :
        e.path \in {"package.json", "yarn.lock", "requirements.txt", "app.py",
                    "random.txt"}}

\* POST /api/scan with a repository of the files written so far
PostScan(min_confidence) ==
    /\ result = NoResult
    /\ result' = scan_repository(rules.SCORE_WEIGHTS, Project, min_confidence)
    /\ detector' = IF result'.returned
                   THEN NewProjectDetector(OrDefault(min_confidence))
                   ELSE detector
    /\ rules' = RulesAfterScan(rules, result')
    /\ UNCHANGED <<evaluation, files, dirs, made, faults, memo>>

NextEndpoint ==
    \/ \E e \in EndpointPool : CreateFile(e)
    \/ \E m \in FormInputs : PostScan(m)
    \/ Drop

SpecEndpoint == Init /\ [][NextEndpoint]_vars

\* C16: a request to the endpoint with a min_confidence of 0.0 to 1.0, 0.0
\* included, is answered with the scan filtered by exactly that value, and
\* min_confidence_threshold of the answer is that value
C16_EndpointThreshold ==
    [][\A m \in FormInputs :
          (PostScan(m) /\ InUnit(m))
          => /\ result'.returned
             /\ result'.min_confidence_threshold = m
             /\ result'.detections =
                   SortByScore(SelectDetections(
                       _analyze_files(rules.SCORE_WEIGHTS,
                           _scan_directory(Project, DEFAULT_MAX_DEPTH), Project),
                       m))]_vars

(***************************************************************************)
(* Scans of deep trees and of trees with ignored directories               *)
(***************************************************************************)

WalkPool ==
    {[path |-> "dist", text |-> ""],
     [path |-> "src/b.txt", text |-> ""],
     [path |-> "distro/z.txt", text |-> ""],
     [path |-> "src/main/c.txt", text |-> ""],
     [path |-> "src/main/java/App.java", text |-> "class App {}"],
     [path |-> "src/main/resources/application.properties", text |-> ""],
     [path |-> "src/main/java/com/D.java", text |-> "class D {}"],
     [path |-> "node_modules/x/package.json", text |-> PKG_PLAIN],
     [path |-> "src/.git/config", text |-> ""],
     [path |-> "src/main/target/out.jar", text |-> ""]}

WalkDepths == 0..MaxDepthArg

NextWalk ==
    \/ \E e \in WalkPool : CreateFile(e)
    \/ Construct(F0_45)
    \/ \E n \in WalkDepths : Scan(n)
    \/ Drop

SpecWalk == Init /\ [][NextWalk]_vars

\* the directories a file lies in, below the root
Components(f) == {Basename(a) : a \in Ancestors(f)}

\* the depth of the directory that holds the file: the root is 0
DirDepth(f) == Cardinality(Ancestors(f))

\* C17: the scanned file list holds exactly the files whose directory lies
\* at a depth below max_depth, the root being depth 0, and not in an ignored
\* directory; with the default max_depth 3 no file directly in src/main/java
\* or src/main/resources is listed
C17_DepthBound ==
    result # NoResult =>
        /\ Scanned = {f \in DOMAIN files :
                        /\ DirDepth(f) < result.max_depth
                        /\ Components(f) \cap IGNORED_DIRS = {}}
        /\ result.max_depth = DEFAULT_MAX_DEPTH
              => \A f \in Scanned :
                     Dirname(f) \notin {"src/main/java", "src/main/resources"}

\* a scan with the default depth of a project with a file in src/main/java,
\* which is not listed, and one above it, which is
C17_Witness ==
    /\ result # NoResult
    /\ result.max_depth = DEFAULT_MAX_DEPTH
    /\ "src/main/java/App.java" \in DOMAIN files
    /\ "src/main/java/App.java" \notin Scanned
    /\ "src/main/c.txt" \in Scanned

\* C18: no path of the scanned file list has a directory of an ignored name
\* among its components, at whatever depth that directory lies
C18_IgnoredPruned ==
    result # NoResult =>
        \A f \in Scanned : Components(f) \cap IGNORED_DIRS = {}

\* a scan deep enough for an ignored directory two levels down, with a file
\* in it that is not listed and a file next to it that is
C18_Witness ==
    /\ result # NoResult
    /\ result.max_depth >= 4
    /\ "src/main/target/out.jar" \in DOMAIN files
    /\ "src/main/target/out.jar" \notin Scanned
    /\ "src/main/java/App.java" \in Scanned

(***************************************************************************)
(* Order among equal scores; the framework of a platform                   *)
(***************************************************************************)

\* the place of a detection's platform in the catalog
CatalogIndex(d) ==
    CHOOSE k \in DOMAIN PLATFORMS :
        _get_language_info(PLATFORMS[k])[1] = d.primary_language

\* C19: detections of equal score are returned in the order of the catalog
\* (java, nodejs, python, dotnet, go, rust, php, ruby), so of several
\* platforms with the highest score the earliest in the catalog is primary
C19_TiesInCatalogOrder ==
    (result.returned /\ result.primary.primary_language # "Unknown") =>
        /\ \A i, j \in 1..Len(result.detections) :
              (/\ i < j
               /\ result.detections[i].confidence_score
                     = result.detections[j].confidence_score)
              => CatalogIndex(result.detections[i])
                    < CatalogIndex(result.detections[j])
        /\ \A i \in 1..Len(result.detections) :
              result.detections[i].confidence_score
                    = result.primary.confidence_score
              => CatalogIndex(result.primary)
                    <= CatalogIndex(result.detections[i])

\* java, nodejs, python, rust and php all score the structure weight alone:
\* java is primary and the others follow in catalog order
C19_Witness ==
    /\ result.returned
    /\ Len(result.detections) >= 3
    /\ result.primary.primary_language = "Java"
    /\ result.detections[2].primary_language = "Node.js"
    /\ result.detections[3].primary_language = "Python"
    /\ result.detections[2].confidence_score = result.primary.confidence_score
    /\ result.detections[3].confidence_score = result.primary.confidence_score

\* the scanned files with their texts
ListedEntries == {[path |-> f, text |-> files[f]] : f \in Scanned}

\* the frameworks of a platform, by their place in its declaration, that
\* have a trigger matching a scanned file
Triggered(platform) ==
    {k \in DOMAIN PLATFORM_FILES[platform].framework_indicators :
        \E i \in DOMAIN PLATFORM_FILES[platform].framework_indicators[k].indicators :
            \E e \in ListedEntries :
                TriggerHit(platform, e,
                    PLATFORM_FILES[platform].framework_indicators[k].indicators[i])}

\* the framework the claim names for the platform
FirstDeclared(platform) ==
    IF Triggered(platform) = {} THEN None
    ELSE PLATFORM_FILES[platform].framework_indicators[
             CHOOSE k \in Triggered(platform) :
                 \A j \in Triggered(platform) : k <= j].name

\* C20: the framework of a detection is the first framework in the
\* declaration order of its platform that has a matching trigger, and None
\* when no framework has one; a framework declared later is never reported
\* while an earlier one has a matching trigger
C20_FirstFrameworkWins ==
    (result.returned /\ result.primary.primary_language # "Unknown") =>
        \A i \in 1..Len(result.detections) :
            result.detections[i].framework =
                FirstDeclared(PLATFORMS[CatalogIndex(result.detections[i])])

\* pom.xml and build.gradle: triggers of Maven and of Gradle, declared after
\* it, both match, and Maven is reported
C20_Witness ==
    /\ result.returned
    /\ {"pom.xml", "build.gradle"} \subseteq Scanned
    /\ Cardinality(Triggered("java")) >= 2
    /\ result.primary.primary_language = "Java"
    /\ result.primary.framework = "Maven"

(***************************************************************************)
(* Scans of projects by the spelling of their file names                   *)
(***************************************************************************)

MatchPool ==
    {[path |-> "pom.xml", text |-> "<project></project>"],
     [path |-> "POM.XML", text |-> "<project></project>"],
     [path |-> "sub/pom.xml", text |-> "<project></project>"],
     [path |-> "pom.xml.bak", text |-> "<project></project>"],
     [path |-> "Web.csproj", text |-> ""],
     [path |-> "Web.CSPROJ", text |-> ""],
     [path |-> "src/main/java/App.java", text |-> "class App {}"],
     [path |-> "x/src/main/java", text |-> ""]}

NextMatch ==
    \/ \E e \in MatchPool : CreateFile(e)
    \/ Construct(F0_45)
    \/ \E n \in DepthInputs : Scan(n)
    \/ Drop

SpecMatch == Init /\ [][NextMatch]_vars

\* the primary and secondary patterns of a platform
FilePatterns(platform) ==
    Range(PLATFORM_FILES[platform].primary)
        \cup Range(PLATFORM_FILES[platform].secondary)

\* C21: a primary or secondary pattern that starts with "*" matches the
\* scanned files whose path ends with the rest of it; another pattern that
\* contains "/" matches the files whose path contains it; any other pattern
\* matches the files whose base name is equal to it; letters are compared
\* as they are, upper case differing from lower case
C21_PatternRules ==
    result # NoResult =>
        \A k \in DOMAIN PLATFORMS :
            \A pattern \in FilePatterns(PLATFORMS[k]) :
                _find_pattern_matches(pattern, Scanned) =
                    {f \in Scanned :
                        IF SubSeq(pattern, 1, 1) = "*"
                        THEN \E n \in 0..Len(f) :
                                SubSeq(f, n + 1, Len(f))
                                    = SubSeq(pattern, 2, Len(pattern))
                        ELSE IF \E n \in 1..Len(pattern) : SubSeq(pattern, n, n) = "/"
                        THEN \E n \in 1..Len(f) :
                                SubSeq(f, n, Min(Len(f), n + Len(pattern) - 1))
                                    = pattern
                        ELSE \/ f = pattern
                             \/ \E n \in 1..Len(f) :
                                   /\ SubSeq(f, n, n) = "/"
                                   /\ SubSeq(f, n + 1, Len(f)) = pattern}

\* a scan that listed a file for each rule, next to files that differ from
\* a pattern in case only
C21_Witness ==
    /\ result # NoResult
    /\ {"sub/pom.xml", "POM.XML", "src/main/java/App.java"} \subseteq Scanned
    /\ _find_pattern_matches("pom.xml", Scanned) = {"sub/pom.xml"}
    /\ _find_pattern_matches("src/main/java", Scanned) = {"src/main/java/App.java"}

(***************************************************************************)
(* Scans of projects by the text of their files                            *)
(***************************************************************************)

FLASK_TWICE == "from flask import Flask; app = Flask(__name__)"

ContentPool ==
    {[path |-> "app.py", text |-> FLASK_TWICE],
     [path |-> "web/app.py", text |-> FLASK_APP],
     [path |-> "main.py", text |-> "print(1)"],
     [path |-> "requirements.txt", text |-> "django flask"],
     [path |-> "pyproject.toml", text |-> "[tool.poetry]"],
     [path |-> "pom.xml", text |-> "<artifactId>spring-boot-starter</artifactId>"]}

NextContent ==
    \/ \E e \in ContentPool : CreateFile(e)
    \/ Construct(F0_45)
    \/ Scan(DEFAULT_MAX_DEPTH)
    \/ Drop

SpecContent == Init /\ [][NextContent]_vars

\* a content_patterns table in which the name app.py matches every group;
\* no platform of the catalog has two groups for one name
OverlapGroups ==
    <<[file_pattern |-> "app.py", patterns |-> <<"flask", "import">>],
      [file_pattern |-> "*.py", patterns |-> <<"from flask import", "Flask(__name__)">>],
      [file_pattern |-> "app.py", patterns |-> <<"Flask">>]>>

\* the files whose name matches the file-name pattern of some group
NameMatching(groups, listed) ==
    {f \in listed : \E k \in DOMAIN groups :
        IF SubSeq(groups[k].file_pattern, 1, 1) = "*"
        THEN EndsWith(Basename(f), DropFirst(groups[k].file_pattern))
        ELSE Basename(f) = groups[k].file_pattern}

\* no more reads than files with a matching name, no more hits than reads
OncePerFile(scan, groups, listed) ==
    /\ scan.opened <= Cardinality(NameMatching(groups, listed))
    /\ scan.matches <= scan.opened

\* C22: the content check of a platform opens every file at most once and
\* counts it at most once, however many groups its name matches and however
\* many substrings its text has: the hit count is at most the number of
\* scanned files whose name matches the file-name pattern of a group
C22_OncePerFile ==
    result # NoResult =>
        /\ \A k \in DOMAIN PLATFORMS :
              /\ OncePerFile(
                    ContentScan(PLATFORMS[k], Project, Scanned,
                        Len(PLATFORM_FILES[PLATFORMS[k]].content_patterns)),
                    PLATFORM_FILES[PLATFORMS[k]].content_patterns, Scanned)
              /\ _check_content_patterns(PLATFORMS[k], Project, Scanned)
                    <= Cardinality(NameMatching(
                          PLATFORM_FILES[PLATFORMS[k]].content_patterns, Scanned))
        /\ OncePerFile(
              ContentScanOf(OverlapGroups, Project, Scanned, Len(OverlapGroups)),
              OverlapGroups, Scanned)

\* app.py has two substrings of the *.py group of python and counts once;
\* under the table with three groups for its name it is read and counted
\* once as well
C22_Witness ==
    /\ result # NoResult
    /\ Scanned = {"app.py", "main.py"}
    /\ Contains(files["app.py"], "from flask import")
    /\ Contains(files["app.py"], "Flask(__name__)")
    /\ _check_content_patterns("python", Project, Scanned) = 1
    /\ ContentScanOf(OverlapGroups, Project, Scanned, 3).opened = 2
    /\ ContentScanOf(OverlapGroups, Project, Scanned, 3).matches = 1

(***************************************************************************)
(* Scans of files longer than the read cap                                 *)
(***************************************************************************)

PADDING == "#"

\* the substring begins after the cap
LATE == Repeat(PADDING, MAX_BYTES) \o "from flask import Flask"

\* the substring, in upper case, lies before the cap of a longer file
EARLY == "FROM FLASK IMPORT Flask" \o Repeat(PADDING, MAX_BYTES)

\* the last character of the substring is the last one read
LAST_IN == Repeat(PADDING, MAX_BYTES - Len("from flask import")) \o "from flask import Flask"

\* the last character of the substring is the first one not read
LAST_OUT == Repeat(PADDING, MAX_BYTES - Len("from flask import") + 1) \o "from flask import Flask"

CapPool ==
    {[path |-> "app.py", text |-> LATE],
     [path |-> "app.py", text |-> EARLY],
     [path |-> "app.py", text |-> LAST_IN],
     [path |-> "app.py", text |-> LAST_OUT],
     [path |-> "app.py", text |-> "From Flask Import Flask"],
     [path |-> "main.py", text |-> LATE],
     [path |-> "main.py", text |-> EARLY],
     [path |-> "requirements.txt", text |-> "Flask==2.0"]}

NextCap ==
    \/ \E e \in CapPool : CreateFile(e)
    \/ Construct(F0_45)
    \/ Scan(DEFAULT_MAX_DEPTH)
    \/ Drop

SpecCap == Init /\ [][NextCap]_vars

\* p occurs in the text and its last character is among the first
\* MAX_BYTES characters of the text
EndsWithinCap(folded, p) ==
    \E i \in 1..Len(folded) :
        /\ i + Len(p) - 1 <= Min(MAX_BYTES, Len(folded))
        /\ SubSeq(folded, i, i + Len(p) - 1) = p

\* some substring of the group does, whatever the case of either
OccursWithinCap(folded, patterns) ==
    \E j \in DOMAIN patterns : EndsWithinCap(folded, Lower(patterns[j]))

\* the scanned files whose name matches a group of the platform and whose
\* text has a substring of that group within the cap
HitsWithinCap(platform) ==
    {f \in Scanned : \E k \in DOMAIN PLATFORM_FILES[platform].content_patterns :
        /\ NameMatching(<<PLATFORM_FILES[platform].content_patterns[k]>>, {f}) = {f}
        /\ OccursWithinCap(Lower(files[f]),
               PLATFORM_FILES[platform].content_patterns[k].patterns)}

StructureDirs ==
    {"src", "vendor", "dist", "build", "src/main/resources", "Controllers"}

StructurePool ==
    {[path |-> "build/out.txt", text |-> ""],
     [path |-> "package.json", text |-> PKG_REACT],
     [path |-> "docs", text |-> "notes"]}

StructureDepths == {0, DEFAULT_MAX_DEPTH}

NextStructure ==
    \/ \E d \in StructureDirs : MakeDirs(d)
    \/ \E e \in StructurePool : CreateFile(e)
    \/ Construct(F0_45)
    \/ \E n \in StructureDepths : Scan(n)
    \/ Drop

SpecStructure == Init /\ [][NextStructure]_vars

\* the structure indicators of a platform, by their place in its list, that
\* name a directory or a file of the project
IndicatorsPresent(platform) ==
    {i \in DOMAIN PLATFORM_FILES[platform].structure_indicators :
        PLATFORM_FILES[platform].structure_indicators[i] \in DOMAIN files \cup dirs}

\* the languages of the detections of the result
Reported == {result.detections[i].primary_language : i \in DOMAIN result.detections}

\* C24: the structure hit count of a platform is the number of its indicator
\* paths that exist below the root, whatever the walk listed, whatever
\* max_depth was and whether or not the path is an ignored directory; a
\* platform with such a path has a score above 0.0, and is reported when the
\* walk listed no file at all
C24_StructureCount ==
    result # NoResult =>
        \A k \in DOMAIN PLATFORMS :
            /\ Signals(PLATFORMS[k], Scanned, Project).structure_found
                   = Cardinality(IndicatorsPresent(PLATFORMS[k]))
            /\ IndicatorsPresent(PLATFORMS[k]) # {} =>
                   /\ FLess(F0_0, Evaluated[k].confidence_score)
                   /\ Scanned = {} =>
                          _get_language_info(PLATFORMS[k])[1] \in Reported

\* dist and vendor, both empty and both ignored by the walk, and nothing
\* listed: Node.js and PHP are reported with the score of one indicator
C24_Witness ==
    /\ result # NoResult
    /\ Scanned = {}
    /\ dirs = {"dist", "vendor"}
    /\ {"dist", "vendor"} \subseteq IGNORED_DIRS
    /\ Reported = {"Node.js", "PHP"}
    /\ \A i \in DOMAIN result.detections :
           result.detections[i].confidence_score = FHalf(F0_15)

(***************************************************************************)
(* Scans of projects of every platform, with and without a primary file    *)
(***************************************************************************)

CommandPool ==
    {[path |-> "pom.xml", text |-> "<project></project>"],
     [path |-> "build.gradle", text |-> ""],
     [path |-> "package.json", text |-> PKG_PLAIN],
     [path |-> "yarn.lock", text |-> ""],
     [path |-> "Cargo.toml", text |-> "[package]"],
     [path |-> "Cargo.lock", text |-> ""],
     [path |-> "go.mod", text |-> "module x"],
     [path |-> "Web.csproj", text |-> "<Project></Project>"],
     [path |-> "composer.json", text |-> "{}"],
     [path |-> "Gemfile", text |-> "source"],
     [path |-> "requirements.txt", text |-> "requests"],
     [path |-> "main.py", text |-> "print(1)"]}

NextCommands ==
    \/ \E e \in CommandPool : CreateFile(e)
    \/ Construct(F0_45)
    \/ Scan(DEFAULT_MAX_DEPTH)
    \/ Drop

SpecCommands == Init /\ [][NextCommands]_vars

\* the detections of the result for a platform of the catalog
DetectionsFor(platform) == DetectionOf(_get_language_info(platform)[1])

\* the command is the entry of the tool in the command table of the platform
IsEntry(platform, tool, command) ==
    \E k \in DOMAIN BUILD_COMMANDS[platform] :
        /\ BUILD_COMMANDS[platform][k].tool = tool
        /\ BUILD_COMMANDS[platform][k].command = command

\* C25: the build command is the table entry of the inferred build tool, and
\* without an inferred build tool it is the single command of a command
\* table with exactly one command
C25_CommandResolution ==
    result # NoResult =>
        \A k \in DOMAIN PLATFORMS : \A d \in DetectionsFor(PLATFORMS[k]) :
            /\ d.build_tool # None =>
                   IsEntry(PLATFORMS[k], d.build_tool, d.build_command)
            /\ (d.build_tool = None /\ Len(BUILD_COMMANDS[PLATFORMS[k]]) = 1) =>
                   d.build_command = BUILD_COMMANDS[PLATFORMS[k]][1].command

\* what _get_commands returns instead: for a platform other than python the
\* table entry of the inferred build tool, and no build command without an
\* inferred build tool or for python, also when the table has one command
CommandsOfInferredTool ==
    result # NoResult =>
        \A k \in DOMAIN PLATFORMS : \A d \in DetectionsFor(PLATFORMS[k]) :
            IF d.build_tool = None \/ PLATFORMS[k] = "python"
            THEN d.build_command = None
            ELSE IsEntry(PLATFORMS[k], d.build_tool, d.build_command)

\* C26: a detection of a platform that needs no build (python, php, ruby)
\* has no build command and has the one command of the command table of its
\* platform as its install command
C26_DependencyOnly ==
    result # NoResult =>
        \A k \in DOMAIN PLATFORMS : \A d \in DetectionsFor(PLATFORMS[k]) :
            ~d.build_required =>
                /\ PLATFORMS[k] \in {"python", "php", "ruby"}
                /\ d.build_command = None
                /\ d.install_command = BUILD_COMMANDS[PLATFORMS[k]][1].command

(***************************************************************************)
(* _analyze_files with its _detect_platform calls in any order and         *)
(* interleaved: every call has its own locals, the file list is shared     *)
(***************************************************************************)

\* the most calls that are under way at a time
MaxWorkers == 2

SchedulePool ==
    {[path |-> "pom.xml", text |-> "<project></project>"],
     [path |-> "app.py", text |-> FLASK_APP]}

\* mutant: detected_files is one list of the detector, shared by the calls
LocalAfterMatch_Shared(local, platform, listed) ==
    [local[platform] EXCEPT
        !.pc = "matched",
        !.primary_found = Cardinality(MatchedPatterns(PLATFORM_FILES[platform].primary, listed)),
        !.secondary_found = Cardinality(MatchedPatterns(PLATFORM_FILES[platform].secondary, listed)),
        !.build_tool = BuildToolAfter(platform, listed, Len(PLATFORM_FILES[platform].primary)),
        !.detected_files =
            UNION {local[p].detected_files : p \in DOMAIN local}
                \cup MatchedFiles(PLATFORM_FILES[platform].primary, listed)
                \cup MatchedFiles(PLATFORM_FILES[platform].secondary, listed)]

\* the locals of a call after its loops over the primary and the secondary
\* patterns
LocalAfterMatch(local, platform, listed) ==
    [local[platform] EXCEPT
        !.pc = "matched",
        !.primary_found = Cardinality(MatchedPatterns(PLATFORM_FILES[platform].primary, listed)),
        !.secondary_found = Cardinality(MatchedPatterns(PLATFORM_FILES[platform].secondary, listed)),
        !.build_tool = BuildToolAfter(platform, listed, Len(PLATFORM_FILES[platform].primary)),
        !.detected_files =
            MatchedFiles(PLATFORM_FILES[platform].primary, listed)
                \cup MatchedFiles(PLATFORM_FILES[platform].secondary, listed)]

\* the DetectionResult a call builds from its locals and the checks that
\* follow the two loops
LocalDetection(W, platform, listed, project, mine, framework) ==
    DetectionResult(_get_language_info(platform)[1], framework, mine.build_tool,
        _get_language_info(platform)[2],
        _get_commands(platform, mine.build_tool)[1],
        _get_commands(platform, mine.build_tool)[2],
        ConfidenceScore(W, mine.primary_found, mine.secondary_found,
            _check_structure_indicators(platform, project),
            _check_config_files(platform, listed),
            framework,
            _check_content_patterns(platform, project, listed)),
        mine.detected_files)

\* _analyze_files is entered with the list of the walk
BeginAnalysis ==
    /\ detector.constructed
    /\ result = NoResult
    /\ ~evaluation.started
    /\ evaluation' = [NoEvaluation EXCEPT
           !.started = TRUE,
           !.files = _scan_directory(Project, DEFAULT_MAX_DEPTH)]
    /\ UNCHANGED <<files, dirs, made, faults, rules, detector, result, memo>>

UnderWay == {p \in Range(PLATFORMS) : evaluation.local[p].pc = "matched"}

\* the call for one platform runs its two loops
MatchFiles(platform) ==
    /\ evaluation.started
    /\ evaluation.local[platform].pc = "idle"
    /\ Cardinality(UnderWay) < MaxWorkers
    /\ evaluation' = [evaluation EXCEPT !.local[platform] =
           LocalAfterMatch(evaluation.local, platform, evaluation.files)]
    /\ UNCHANGED <<files, dirs, made, faults, rules, detector, result, memo>>

\* the call for one platform runs its other checks and returns
BuildDetection(platform) ==
    /\ evaluation.started
    /\ evaluation.local[platform].pc = "matched"
    /\ evaluation' = [evaluation EXCEPT !.local[platform] =
           [@ EXCEPT !.pc = "done",
                     !.detection = LocalDetection(rules.SCORE_WEIGHTS, platform,
                         evaluation.files, Project, evaluation.local[platform],
                         _detect_framework(platform, evaluation.files, Project))]]
    /\ UNCHANGED <<files, dirs, made, faults, rules, detector, result, memo>>

\* the detections of the calls, those with a score above 0.0 in the order of
\* the catalog
RECURSIVE Candidates(_, _)
Candidates(local, k) ==
    IF k = 0 THEN <<>>
    ELSE AppendKept(Candidates(local, k - 1), local[PLATFORMS[k]].detection)

\* every call has returned: scan_project goes on with the candidates
EndAnalysis ==
    /\ evaluation.started
    /\ \A p \in Range(PLATFORMS) : evaluation.local[p].pc = "done"
    /\ result' = ValidDetections(detector, DEFAULT_MAX_DEPTH,
                     Candidates(evaluation.local, Len(PLATFORMS)))
    /\ evaluation' = NoEvaluation
    /\ UNCHANGED <<files, dirs, made, faults, rules, detector, memo>>

NextSchedule ==
    \/ \E e \in SchedulePool : ~evaluation.started /\ CreateFile(e)
    \/ ~evaluation.started /\ Construct(F0_45)
    \/ BeginAnalysis
    \/ \E p \in Range(PLATFORMS) : MatchFiles(p)
    \/ \E p \in Range(PLATFORMS) : BuildDetection(p)
    \/ EndAnalysis
    \/ Drop

SpecSchedule == Init /\ [][NextSchedule]_vars

\* score, framework, build tool and detected files of a detection
Outcome(d) ==
    <<d.confidence_score, d.framework, d.build_tool, d.detected_files>>

\* C27: whatever the order and the interleaving of the calls, a call that
\* has returned has the score, framework, build tool and detected files that
\* the call made in sequence has, and once all have returned the candidates
\* are the ones of the sequential _analyze_files
C27_ScheduleIndependent ==
    evaluation.started =>
        /\ \A k \in DOMAIN PLATFORMS :
               evaluation.local[PLATFORMS[k]].pc = "done" =>
                   Outcome(evaluation.local[PLATFORMS[k]].detection)
                       = Outcome(_detect_platform(rules.SCORE_WEIGHTS, PLATFORMS[k],
                                     evaluation.files, Project))
        /\ (\A p \in Range(PLATFORMS) : evaluation.local[p].pc = "done") =>
               Range(Candidates(evaluation.local, Len(PLATFORMS)))
                   = Range(_analyze_files(rules.SCORE_WEIGHTS, evaluation.files, Project))

\* ruby and python have returned before java, the first of the catalog, has
\* started, nodejs is between its loops and its checks, and python has a
\* candidate
C27_Witness ==
    /\ evaluation.started
    /\ evaluation.files = {"pom.xml", "app.py"}
    /\ evaluation.local["java"].pc = "idle"
    /\ evaluation.local["nodejs"].pc = "matched"
    /\ evaluation.local["python"].pc = "done"
    /\ evaluation.local["ruby"].pc = "done"
    /\ FLess(F0_0, evaluation.local["python"].detection.confidence_score)

\* C28: in a returned result a detection is the unknown one exactly when its
\* score is 0.0, and then the result has no other detection; a detection of
\* a platform of the catalog has a score above 0.0, and no language is
\* detected twice
C28_UnknownAlone ==
    (result # NoResult /\ result.returned) =>
        /\ \A i \in DOMAIN result.detections :
              /\ result.detections[i].primary_language = "Unknown"
                     <=> result.detections[i].confidence_score = F0_0
              /\ result.detections[i].primary_language = "Unknown"
                     => Len(result.detections) = 1
              /\ result.detections[i].primary_language # "Unknown"
                     => /\ FLess(F0_0, result.detections[i].confidence_score)
                        /\ \E k \in DOMAIN PLATFORMS :
                               result.detections[i].primary_language
                                   = _get_language_info(PLATFORMS[k])[1]
        /\ \A i, j \in DOMAIN result.detections :
              result.detections[i].primary_language
                  = result.detections[j].primary_language => i = j

\* a scan that returned two platforms, both below the threshold, and no
\* unknown detection next to them
C28_Witness ==
    /\ result # NoResult
    /\ result.returned
    /\ Len(result.detections) = 2
    /\ \A i \in DOMAIN result.detections :
           /\ result.detections[i].primary_language # "Unknown"
           /\ FLess(result.detections[i].confidence_score, result.min_confidence_threshold)

\* C29: a detection of a platform one of whose primary patterns matched a
\* scanned file, at whatever depth, has a build tool; the one of java is
\* Maven or Gradle
C29_PrimaryHasBuildTool ==
    result # NoResult =>
        \A k \in DOMAIN PLATFORMS : \A d \in DetectionsFor(PLATFORMS[k]) :
            (\E i \in DOMAIN PLATFORM_FILES[PLATFORMS[k]].primary : \E f \in Scanned :
                 NameMatches(PLATFORM_FILES[PLATFORMS[k]].primary[i], f))
            => /\ d.build_tool # None
               /\ PLATFORMS[k] = "java" => d.build_tool \in {"Maven", "Gradle"}

\* C30: the detected files of a detection are exactly the scanned files that
\* a primary or a secondary pattern of its platform matches; a file or
\* directory that counted as config file, framework trigger, structure
\* indicator or content hit only is not among them
C30_DetectedFiles ==
    result # NoResult =>
        \A k \in DOMAIN PLATFORMS : \A d \in DetectionsFor(PLATFORMS[k]) :
            d.detected_files =
                {f \in Scanned : \E pattern \in FilePatterns(PLATFORMS[k]) :
                    NameMatches(pattern, f)}

\* Java is detected by the directory src/test/java alone and has no detected
\* files; Node.js, next to it, has its package.json
C30_Witness ==
    /\ result # NoResult
    /\ "src/test/java" \in dirs
    /\ Scanned = {"package.json"}
    /\ \E d \in DetectionsFor("java") :
           FLess(F0_0, d.confidence_score) /\ d.detected_files = {}
    /\ \E d \in DetectionsFor("nodejs") : d.detected_files = {"package.json"}

=============================================================================
